---- MODULE Spec2Model ----
(***************************************************************************)
(* Model of the data-cleaning pipeline of the dashboard (src/app.py).      *)
(*                                                                         *)
(* The browser holds the component properties (data-table.data,            *)
(* imputed-table.data, the two dcc.Store components, the two buttons'      *)
(* disabled flags, the toasts).  A callback run is one request of the      *)
(* browser and one answer that Dash writes to the Outputs.  A click on a   *)
(* button of one callback is served in one step; where one event requests  *)
(* several callbacks (an upload, the "Apply Imputation" click) each answer *)
(* is a step of its own and other events are served in between.            *)
(*                                                                         *)
(* Numbers are exact rationals [n, d] (d > 0, lowest terms); a missing     *)
(* cell (None / NaN) is NULL.  Row labels of a DataFrame built from        *)
(* records are 0..len-1, as in pandas; row i of a sequence is label i-1.   *)
(***************************************************************************)
EXTENDS Integers, Sequences, FiniteSets, TLC

\* ---------------------------------------------------------------- bounds
MaxRows == 2
MaxReRows == 1

\* ------------------------------------------------------------ cell values
NULL == [t |-> "null", n |-> 0, d |-> 1]

RECURSIVE GCD(_, _)
GCD(x, y) == IF y = 0 THEN x ELSE GCD(y, x % y)

Abs(x) == IF x < 0 THEN -x ELSE x

Num(n, d) ==
    LET g == GCD(Abs(n), d)
    IN  [t |-> "num", n |-> n \div g, d |-> d \div g]

IsNull(c) == c.t = "null"
IsNum(c) == c.t = "num"

\* a string cell; k is the rank of the string in sorted order
Str(k) == [t |-> "str", n |-> k, d |-> 1]
IsStr(c) == c.t = "str"

\* the text of the number x ("8"): what read_csv makes of a number in a
\* column that also holds a string
Text(x) == [t |-> "text", n |-> x.n, d |-> x.d]
IsText(c) == c.t = "text"

\* a truth value (True / False)
Bool(b) == [t |-> "bool", n |-> IF b THEN 1 ELSE 0, d |-> 1]

RAdd(x, y) == Num(x.n * y.d + y.n * x.d, x.d * y.d)
RSub(x, y) == Num(x.n * y.d - y.n * x.d, x.d * y.d)
RMul(x, y) == Num(x.n * y.n, x.d * y.d)
RDivInt(x, k) == Num(x.n, x.d * k)
RLt(x, y) == x.n * y.d < y.n * x.d

\* a double holds n/d exactly when d is a power of two (the numerators of
\* the model are small)
RECURSIVE ExactDouble(_)
ExactDouble(x) ==
    \/ x.d = 1
    \/ x.d % 2 = 0 /\ ExactDouble([x EXCEPT !.d = x.d \div 2])

\* x*1000 lies halfway between two integers
HalfWay(x) == 2 * ((x.n * 1000) % x.d) = x.d

\* round(x, 3): x*1000 rounded to the nearest integer, half to even, divided
\* by 1000.  Where x lies halfway in decimal arithmetic and the double is
\* not x exactly, the double lies on one side: flipped tells that it is
\* rounded to the odd neighbour (0.5015 gives 0.501).
Round3(x, flipped) ==
    LET m == x.n * 1000
        q == m \div x.d
        r == m % x.d
        up == IF 2 * r > x.d THEN 1
              ELSE IF 2 * r < x.d THEN 0
              ELSE IF (q % 2 = 0) = flipped THEN 1 ELSE 0
    IN  Num(q + up, 1000)

\* ------------------------------------------------------------- sequences
RECURSIVE SeqSum(_)
SeqSum(s) == IF s = <<>> THEN Num(0, 1) ELSE RAdd(Head(s), SeqSum(Tail(s)))

RECURSIVE Insert(_, _)
Insert(x, s) ==
    IF s = <<>> THEN <<x>>
    ELSE IF RLt(Head(s), x) THEN <<Head(s)>> \o Insert(x, Tail(s))
    ELSE <<x>> \o s

RECURSIVE SortNums(_)
SortNums(s) == IF s = <<>> THEN <<>> ELSE Insert(Head(s), SortNums(Tail(s)))

RECURSIVE SetToSortedSeq(_)
SetToSortedSeq(S) ==
    IF S = {} THEN <<>>
    ELSE LET m == CHOOSE x \in S : \A y \in S : x <= y
         IN  <<m>> \o SetToSortedSeq(S \ {m})

SelectIdx(s, keep) ==
    LET F[i \in 0..Len(s)] ==
            IF i = 0 THEN <<>>
            ELSE IF i \in keep THEN Append(F[i-1], s[i]) ELSE F[i-1]
    IN  F[Len(s)]

\* ------------------------------------------------------------ DataFrames
Cols == {"a", "b"}

\* df.columns of a non-empty frame built from records
ColumnsOf(df) == DOMAIN df[1]

\* df[col]
Column(df, col) == [i \in 1..Len(df) |-> df[i][col]]

\* df[col].dropna()
DropNa(s) == SelectSeq(s, IsNum)

\* pd.api.types.is_numeric_dtype(df[col]) of a frame built from records:
\* a column holding numbers (and missing cells) is int64/float64, a column
\* holding no number at all, or a string, is object.
is_numeric_dtype(s) ==
    /\ \E i \in 1..Len(s) : IsNum(s[i])
    /\ \A i \in 1..Len(s) : s[i].t \in {"num", "null"}

\* Series.isna().any()
AnyNa(s) == \E i \in 1..Len(s) : IsNull(s[i])

\* Series.mean() (missing cells skipped)
Mean(s) ==
    LET v == DropNa(s)
    IN  IF v = <<>> THEN NULL ELSE RDivInt(SeqSum(v), Len(v))

\* Series.quantile(q) with q = qn/qd, linear interpolation, on non-null values
Quantile(v, qn, qd) ==
    LET s == SortNums(v)
        h == (Len(s) - 1) * qn
        i == h \div qd
        r == h % qd
    IN  IF r = 0 THEN s[i + 1]
        ELSE RAdd(s[i + 1], RMul(Num(r, qd), RSub(s[i + 2], s[i + 1])))

\* Series.median() (missing cells skipped)
Median(s) ==
    LET v == DropNa(s)
    IN  IF v = <<>> THEN NULL ELSE Quantile(v, 1, 2)

\* Series.var() with ddof = 1, on at least two non-null values
Var(v) ==
    LET m == Mean(v)
        sq == [i \in 1..Len(v) |-> RMul(RSub(v[i], m), RSub(v[i], m))]
    IN  RDivInt(SeqSum(sq), Len(v) - 1)

\* Floating point.  The sum of three or more equal values that no double
\* holds exactly is rounded (x + x is exact, and so is its half), so that
\* Series.mean() can differ from the value in the last bit and Series.std()
\* is then a tiny positive number instead of 0.  These are the columns of df
\* where that can happen.
RoundedMeans(df, cols) ==
    {c \in cols :
        /\ is_numeric_dtype(Column(df, c))
        /\ Len(DropNa(Column(df, c))) > 2
        /\ \A i \in 1..Len(DropNa(Column(df, c))) :
               /\ DropNa(Column(df, c))[i] = DropNa(Column(df, c))[1]
               /\ ~ExactDouble(DropNa(Column(df, c))[i])}

\* variant: fillna(value, limit=1) fills the first missing cell only
FillNa_first(s, value) ==
    [i \in 1..Len(s) |->
        IF IsNull(s[i]) /\ \A j \in 1..(i-1) : ~IsNull(s[j]) THEN value ELSE s[i]]

\* Series.fillna(value)
FillNa(s, value) == [i \in 1..Len(s) |-> IF IsNull(s[i]) THEN value ELSE s[i]]

\* df_imputed[col] = series
SetColumn(df, col, s) == [i \in 1..Len(df) |-> [df[i] EXCEPT ![col] = s[i]]]

\* df.duplicated(keep=False): rows that have another identical row
DuplicatedAll(df) == {i \in 1..Len(df) : \E j \in 1..Len(df) : j # i /\ df[j] = df[i]}

\* variant: drop_duplicates(keep="last")
drop_duplicates_last(df) ==
    SelectIdx(df, {i \in 1..Len(df) : \A j \in (i+1)..Len(df) : df[j] # df[i]})

\* df.drop_duplicates(): keep the first occurrence of every row
drop_duplicates(df) ==
    SelectIdx(df, {i \in 1..Len(df) : \A j \in 1..(i-1) : df[j] # df[i]})

\* ------------------------------------------------- outlier detection loop
\* threshold = outlier_threshold if outlier_threshold else <default>
EffectiveThreshold(outlier_threshold, default) ==
    IF IsNum(outlier_threshold) /\ outlier_threshold.n # 0
    THEN outlier_threshold ELSE default

\* variant: a column with two values is skipped as well
Processed_two(df, col) ==
    /\ is_numeric_dtype(Column(df, col))
    /\ Len(DropNa(Column(df, col))) > 2

\* the loop skips a column that is not numeric or has at most one value
Processed(df, col) ==
    /\ is_numeric_dtype(Column(df, col))
    /\ Len(DropNa(Column(df, col))) > 1

\* Floating point at a bound.  q1, q3 and the bounds are doubles; where a
\* value of the column or the threshold is no exact double they are rounded,
\* and a cell that lies on a bound in decimal arithmetic is then compared
\* with a double next to it.  These are the labels of such cells.  With
\* iqr = 0 the bounds are the quartile itself, a value of the column, and
\* nothing is rounded.
IqrTies(df, col, outlier_threshold) ==
    LET col_data == DropNa(Column(df, col))
        q1 == Quantile(col_data, 1, 4)
        q3 == Quantile(col_data, 3, 4)
        iqr == RSub(q3, q1)
        threshold == EffectiveThreshold(outlier_threshold, Num(3, 2))
        lower_bound == RSub(q1, RMul(threshold, iqr))
        upper_bound == RAdd(q3, RMul(threshold, iqr))
    IN  IF \/ /\ ExactDouble(threshold)
              /\ \A i \in 1..Len(col_data) : ExactDouble(col_data[i])
           \/ iqr.n = 0
        THEN {}
        ELSE {i - 1 : i \in {j \in 1..Len(df) :
                /\ IsNum(df[j][col])
                /\ df[j][col] \in {lower_bound, upper_bound}}}

\* IQR branch: labels of the rows below lower_bound or above upper_bound;
\* rounded holds <<col, label>> for the cells on a bound (IqrTies) that the
\* doubles put outside
IqrRows(df, col, outlier_threshold, rounded) ==
    LET col_data == DropNa(Column(df, col))
        q1 == Quantile(col_data, 1, 4)
        q3 == Quantile(col_data, 3, 4)
        iqr == RSub(q3, q1)
        threshold == EffectiveThreshold(outlier_threshold, Num(3, 2))
        lower_bound == RSub(q1, RMul(threshold, iqr))
        upper_bound == RAdd(q3, RMul(threshold, iqr))
    IN  {i - 1 : i \in {j \in 1..Len(df) :
            /\ IsNum(df[j][col])
            /\ (RLt(df[j][col], lower_bound) \/ RLt(upper_bound, df[j][col]))}}
        \cup (IF rounded = {} THEN {}
              ELSE {k \in IqrTies(df, col, outlier_threshold) :
                      <<col, k>> \in rounded})

\* The labels of the cells whose z-score equals the threshold in decimal
\* arithmetic while mean, std or the quotient is rounded in doubles: the
\* computed abs(z) is then the threshold or a double next to it.  Where the
\* values, their mean and their variance are exact doubles, std and the
\* quotient are correctly rounded and the comparison is exact.
ZscoreTies(df, col, outlier_threshold) ==
    LET col_data == DropNa(Column(df, col))
        threshold == EffectiveThreshold(outlier_threshold, Num(3, 1))
        mean == Mean(col_data)
        var == Var(col_data)
    IN  IF \/ threshold.n < 0
           \/ /\ \A i \in 1..Len(col_data) : ExactDouble(col_data[i])
              /\ ExactDouble(mean)
              /\ ExactDouble(var)
           \/ var.n = 0
        THEN {}
        ELSE {i - 1 : i \in {j \in 1..Len(df) :
                /\ IsNum(df[j][col])
                /\ RMul(RMul(threshold, threshold), var)
                     = RMul(RSub(df[j][col], mean), RSub(df[j][col], mean))}}

\* Z-score branch: labels of the rows with abs((x - mean) / std) > threshold;
\* with std > 0 and threshold >= 0 this is (x - mean)^2 > threshold^2 * var.
\* Where the values are equal, "std == 0" holds unless the mean is rounded
\* (<<col, -1>> in rounded); the n deviations are then equal and every
\* z-score is sqrt((n - 1) / n).  rounded holds <<col, label>> for the cells
\* of ZscoreTies whose computed z-score is above the threshold.
ZscoreRows(df, col, outlier_threshold, rounded) ==
    LET col_data == DropNa(Column(df, col))
        threshold == EffectiveThreshold(outlier_threshold, Num(3, 1))
        mean == Mean(col_data)
        var == Var(col_data)
    IN  IF var.n = 0 /\ <<col, -1>> \notin rounded THEN {}
        ELSE IF var.n = 0
        THEN {i - 1 : i \in {j \in 1..Len(df) :
                /\ IsNum(df[j][col])
                /\ \/ threshold.n < 0
                   \/ RLt(RMul(threshold, threshold),
                          Num(Len(col_data) - 1, Len(col_data)))}}
        ELSE {i - 1 : i \in {j \in 1..Len(df) :
                /\ IsNum(df[j][col])
                /\ \/ threshold.n < 0
                   \/ RLt(RMul(RMul(threshold, threshold), var),
                          RMul(RSub(df[j][col], mean), RSub(df[j][col], mean)))}}
             \cup (IF rounded = {} THEN {}
                   ELSE {k \in ZscoreTies(df, col, outlier_threshold) :
                           <<col, k>> \in rounded})

\* What the doubles can round in a detection: the mean of a column of equal
\* values (<<col, -1>>, Z-score) and the comparison of a cell that lies on a
\* bound (<<col, label>>).  A detection is given, as "rounded", the subset
\* where the rounding changes the outcome.
Roundings(df, outlier_cols, outlier_method, outlier_threshold) ==
    (IF outlier_method = "zscore"
     THEN {<<c, -1>> : c \in RoundedMeans(df, outlier_cols)} ELSE {})
    \cup UNION {{<<c, k>> : k \in
                    IF outlier_method = "iqr"
                    THEN IqrTies(df, c, outlier_threshold)
                    ELSE IF outlier_method = "zscore"
                    THEN ZscoreTies(df, c, outlier_threshold)
                    ELSE {}} :
                c \in {x \in outlier_cols : Processed(df, x)}}

OutlierRows(df, col, outlier_method, outlier_threshold, rounded) ==
    IF outlier_method = "iqr" THEN IqrRows(df, col, outlier_threshold, rounded)
    ELSE ZscoreRows(df, col, outlier_threshold, rounded)

\* outliers_dict[col] = {'outliers': ..., 'count': ..., 'indices': ...}
OutlierEntry(df, col, outlier_rows) ==
    [outliers |-> [i \in outlier_rows |-> df[i + 1][col]],
     count |-> Cardinality(outlier_rows),
     indices |-> SetToSortedSeq(outlier_rows)]

\* "if outlier_rows:": an entry for every processed column with a flagged row
FlaggedEntries(df, outlier_rows) ==
    [c \in {k \in DOMAIN outlier_rows : outlier_rows[k] # {}} |->
        OutlierEntry(df, c, outlier_rows[c])]

\* the dict built by the loop: one entry per processed column with a row
OutliersDict(df, outlier_cols, outlier_method, outlier_threshold, rounded) ==
    FlaggedEntries(df, [c \in {k \in outlier_cols : Processed(df, k)} |->
                           OutlierRows(df, c, outlier_method, outlier_threshold,
                                       rounded)])

Range(s) == {s[i] : i \in 1..Len(s)}

\* variant: the set is overwritten by one column's rows, not updated
OutlierIndices_overwrite(outliers_dict) ==
    IF DOMAIN outliers_dict = {} THEN {}
    ELSE Range(outliers_dict[CHOOSE c \in DOMAIN outliers_dict : TRUE].indices)

\* outlier_indices.update(outlier_rows) over the loop
OutlierIndices(outliers_dict) ==
    UNION {Range(outliers_dict[c].indices) : c \in DOMAIN outliers_dict}

\* 'threshold' of the stored report
StoredThreshold(outlier_method, outlier_threshold) ==
    IF IsNum(outlier_threshold) /\ outlier_threshold.n # 0 THEN outlier_threshold
    ELSE IF outlier_method = "zscore" THEN Num(3, 1) ELSE Num(3, 2)

\* ------------------------------------------------------ handle_data_cleaning
\* Python None for a store is the empty sequence, a stored value x is <<x>>;
\* a cleared dropdown (None) is the string "None".
None == <<>>
Some(x) == <<x>>

\* imputation-rows.value: None, a number of rows, or "all"
ROWS_NONE == 0
ROWS_ALL == -1

NoCounts == [c \in {} |-> 0]
Msg(kind, n) == [kind |-> kind, n |-> n]

\* the message about missing values built before the branches
MissingMessage(df) ==
    LET missing_cols == {c \in ColumnsOf(df) : AnyNa(Column(df, c))}
    IN  IF missing_cols = {}
        THEN [kind |-> "no_missing", counts |-> NoCounts]
        ELSE [kind |-> "missing",
              counts |-> [c \in missing_cols |->
                            Cardinality({i \in 1..Len(df) : IsNull(df[i][c])})]]

\* variant: the button stays enabled while a report is stored
InitialHandleDisabled_stored(outliers_data) == outliers_data = None

\* handle_button_disabled = True before the branches
InitialHandleDisabled(outliers_data) == TRUE

\* remove_button_disabled = True before the branches
InitialRemoveDisabled(duplicates_data) == TRUE

\* variant: the report is dropped before the branches
InitialOutliersStore_empty(outliers_data) == None

\* outliers_store = outliers_data before the branches
InitialOutliersStore(outliers_data) == outliers_data

\* the values of the locals when no branch is taken
Defaults(df, duplicates_data, outliers_data) ==
    [data |-> df,
     columns |-> ColumnsOf(df),
     missing_message |-> MissingMessage(df),
     remove_disabled |-> InitialRemoveDisabled(duplicates_data),
     duplicates_message |-> Msg("", 0),
     duplicates_store |-> duplicates_data,
     handle_disabled |-> InitialHandleDisabled(outliers_data),
     outliers_message |-> Msg("", 0),
     outliers_store |-> InitialOutliersStore(outliers_data),
     success_toast |-> FALSE,
     warning_toast |-> FALSE,
     raised |-> FALSE]

\* "if not data" / "if df.empty": nothing to clean
NoDataReturn ==
    [data |-> <<>>,
     columns |-> {},
     missing_message |-> [kind |-> "no_data", counts |-> NoCounts],
     remove_disabled |-> TRUE,
     duplicates_message |-> Msg("no_data", 0),
     duplicates_store |-> None,
     handle_disabled |-> TRUE,
     outliers_message |-> Msg("no_data", 0),
     outliers_store |-> None,
     success_toast |-> FALSE,
     warning_toast |-> FALSE,
     raised |-> FALSE]

\* an exception escapes the callback: no Output is written
Raise(base) == [base EXCEPT !.raised = TRUE]

\* branch 'find-duplicates-button.n_clicks'
FindDuplicates(df, base) ==
    LET duplicates == SelectIdx(df, DuplicatedAll(df))
    IN  IF Len(duplicates) > 0
        THEN [base EXCEPT !.duplicates_message = Msg("found", Len(duplicates)),
                          !.remove_disabled = FALSE,
                          !.duplicates_store = Some(duplicates)]
        ELSE [base EXCEPT !.duplicates_message = Msg("none_found", 0),
                          !.remove_disabled = TRUE,
                          !.duplicates_store = None]

\* branch 'remove-duplicates-button.n_clicks' and duplicates_data
RemoveDuplicates(df, base) ==
    [base EXCEPT !.data = drop_duplicates(df),
                 !.duplicates_message = Msg("removed", 0),
                 !.remove_disabled = TRUE,
                 !.duplicates_store = None]

\* "if outliers_dict:": the report is stored and the handle button enabled
StoreReport(base, outliers_dict, outlier_method, outlier_threshold) ==
    IF DOMAIN outliers_dict # {}
    THEN [base EXCEPT
            !.outliers_message =
                Msg("found", Cardinality(OutlierIndices(outliers_dict))),
            !.handle_disabled = FALSE,
            !.outliers_store =
                Some([outliers_dict |-> outliers_dict,
                      outlier_indices |-> OutlierIndices(outliers_dict),
                      method |-> outlier_method,
                      threshold |-> StoredThreshold(outlier_method,
                                                    outlier_threshold)])]
    ELSE [base EXCEPT !.outliers_message = Msg("none_found", 0),
                      !.handle_disabled = TRUE,
                      !.outliers_store = None]

\* branch 'detect-outliers-button.n_clicks'
DetectOutliers(df, base, outlier_cols, outlier_method, outlier_threshold, rounded) ==
    IF outlier_cols = {}
    THEN [base EXCEPT !.outliers_message = Msg("select_column", 0)]
    ELSE IF /\ outlier_method \notin {"iqr", "zscore"}
            /\ \E c \in outlier_cols : Processed(df, c)
    THEN Raise(base)    \* "if outlier_rows:" reads an unbound local
    ELSE StoreReport(base,
                     OutliersDict(df, outlier_cols, outlier_method,
                                  outlier_threshold, rounded),
                     outlier_method, outlier_threshold)

\* variant: the labels are taken as 1-based positions
DropRows_position(df, outlier_indices) ==
    SelectIdx(df, {i \in 1..Len(df) : i \notin outlier_indices})

\* df.drop(index=outlier_indices): a label that is not in the index raises
DropRows(df, outlier_indices) ==
    SelectIdx(df, {i \in 1..Len(df) : (i - 1) \notin outlier_indices})

\* variant: every row of the union is replaced in every stored column
ReplaceOutliers_union(df, outliers_dict, outlier_handling) ==
    [i \in 1..Len(df) |->
        [c \in ColumnsOf(df) |->
            IF c \in DOMAIN outliers_dict /\ (i - 1) \in OutlierIndices(outliers_dict)
            THEN IF outlier_handling = "median" THEN Median(Column(df, c))
                 ELSE Mean(Column(df, c))
            ELSE df[i][c]]]

\* df.loc[stats['indices'], col] = replacement, for every stored column
ReplaceOutliers(df, outliers_dict, outlier_handling) ==
    [i \in 1..Len(df) |->
        [c \in ColumnsOf(df) |->
            IF c \in DOMAIN outliers_dict /\ (i - 1) \in Range(outliers_dict[c].indices)
            THEN IF outlier_handling = "median" THEN Median(Column(df, c))
                 ELSE Mean(Column(df, c))
            ELSE df[i][c]]]

\* variant: the handled report stays in the store
StoreAfterHandling_kept(outliers_data) == outliers_data

\* "outliers_store = None" once a policy has been applied
StoreAfterHandling(outliers_data) == None

\* branch 'handle-outliers-button.n_clicks' and outliers_data
HandleOutliers(df, base, outliers_data, outlier_handling) ==
    LET outliers_dict == outliers_data[1].outliers_dict
        outlier_indices == outliers_data[1].outlier_indices
        labels == {i - 1 : i \in 1..Len(df)}
    IN  IF outlier_handling = "remove"
        THEN IF ~(outlier_indices \subseteq labels)
             THEN Raise(base)    \* KeyError in df.drop
             ELSE [base EXCEPT
                     !.data = DropRows(df, outlier_indices),
                     !.outliers_message = Msg("removed", Cardinality(outlier_indices)),
                     !.handle_disabled = TRUE,
                     !.outliers_store = StoreAfterHandling(outliers_data)]
        ELSE IF outlier_handling \notin {"median", "mean"}
             THEN Raise(base)    \* "replacement" is an unbound local
        ELSE IF \E c \in DOMAIN outliers_dict :
                    ~(Range(outliers_dict[c].indices) \subseteq labels)
             THEN Raise(base)    \* KeyError in df.loc[...] = replacement
        ELSE IF \E c \in DOMAIN outliers_dict :
                    \E i \in 1..Len(df) : IsStr(df[i][c]) \/ IsText(df[i][c])
             THEN Raise(base)    \* df[col].median() / .mean() of a column with text
        ELSE [base EXCEPT
                !.data = ReplaceOutliers(df, outliers_dict, outlier_handling),
                !.outliers_message = Msg("replaced", Cardinality(DOMAIN outliers_dict)),
                !.handle_disabled = TRUE,
                !.outliers_store = StoreAfterHandling(outliers_data)]

\* KNNImputer(n_neighbors=5).fit_transform(df[[col]]): with a single feature
\* no distance to a donor is defined and a missing cell receives the column
\* mean; the whole series is then rounded to 3 decimals.  flipped: the
\* labels of the cells, -1 for the mean, that the doubles round to the odd
\* neighbour (see Round3).
KnnImputed(s, flipped) ==
    [i \in 1..Len(s) |->
        IF IsNull(s[i]) THEN Round3(Mean(s), -1 \in flipped)
        ELSE Round3(s[i], (i - 1) \in flipped)]

\* df[col].mode()[0] if not df[col].mode().empty else np.nan.  mode() lists
\* the most frequent values sorted; where they cannot be compared (a number
\* and a string) the sort is given up and they stay in the order of their
\* first appearance.  A text of a number sorts before a word (and the texts
\* of the numbers of the model sort as the numbers do).
ModeValue(s) ==
    LET v == SelectSeq(s, LAMBDA c : ~IsNull(c))
        Count(x) == Cardinality({i \in 1..Len(v) : v[i] = x})
        best == {x \in Range(v) : \A y \in Range(v) : Count(y) <= Count(x)}
        IsWord(x) == IsStr(x) \/ IsText(x)
        Before(x, y) == IF x.t = y.t THEN RLt(x, y) ELSE IsText(x)
    IN  IF v = <<>> THEN NULL
        ELSE IF \E x, y \in best : IsWord(x) # IsWord(y)
        THEN v[CHOOSE i \in 1..Len(v) :
                  v[i] \in best /\ \A j \in 1..(i - 1) : v[j] \notin best]
        ELSE CHOOSE x \in best : \A y \in best : ~Before(y, x)

\* The labels of the roundings of an imputation of s that the doubles
\* decide: -1 for the value that fills the missing cells, a mean or a median
\* that lies halfway unless the values and it are exact doubles, and with
\* knn the label of every present cell that lies halfway and is no exact
\* double.
OpenRoundings(s, method) ==
    IF ~AnyNa(s) \/ ~is_numeric_dtype(s) \/ method \notin {"mean", "median", "knn"}
    THEN {}
    ELSE LET value == IF method = "median" THEN Median(s) ELSE Mean(s)
         IN  (IF /\ HalfWay(value)
                 /\ ~(/\ ExactDouble(value)
                       /\ \A i \in 1..Len(s) : IsNum(s[i]) => ExactDouble(s[i]))
              THEN {-1} ELSE {})
             \cup (IF method # "knn" THEN {}
                   ELSE {i - 1 : i \in {j \in 1..Len(s) :
                           IsNum(s[j]) /\ HalfWay(s[j]) /\ ~ExactDouble(s[j])}})

\* What the doubles can round in an imputation: <<col, label>> for every
\* open rounding of a selected column.  An imputation is given, as
\* "rounded", the subset that is rounded to the odd neighbour.
ImputeRoundings(df, selected_columns, method) ==
    UNION {{<<c, k>> : k \in OpenRoundings(Column(df, c), method)} :
              c \in selected_columns}

\* the body of "for col in selected_columns"
ImputedColumn(s, method, flipped) ==
    IF ~AnyNa(s) THEN s
    ELSE IF is_numeric_dtype(s)
         THEN IF method = "mean"
              THEN FillNa(s, Round3(Mean(s), -1 \in flipped))
              ELSE IF method = "median"
              THEN FillNa(s, Round3(Median(s), -1 \in flipped))
              ELSE IF method = "knn" THEN KnnImputed(s, flipped)
              ELSE s
         ELSE IF method = "mode" THEN FillNa(s, ModeValue(s)) ELSE s

\* branch 'apply-imputation-button.n_clicks'
ApplyImputation(df, base, selected_columns, method, rounded) ==
    IF selected_columns = {}
    THEN [base EXCEPT !.warning_toast = TRUE]
    ELSE LET imputed == [c \in selected_columns |->
                            ImputedColumn(Column(df, c), method,
                                {p[2] : p \in {q \in rounded : q[1] = c}})]
         IN  [base EXCEPT
                !.data = [i \in 1..Len(df) |->
                            [c \in ColumnsOf(df) |->
                                IF c \in selected_columns THEN imputed[c][i]
                                ELSE df[i][c]]],
                !.success_toast = TRUE]

\* page_size = len(data) if rows == "all" and len(data) > 0 else (rows if rows else 10)
PageSize(data, rows) ==
    IF rows = ROWS_ALL /\ Len(data) > 0 THEN Len(data)
    ELSE IF rows # ROWS_NONE /\ rows # ROWS_ALL THEN rows
    ELSE IF rows = ROWS_ALL THEN ROWS_ALL
    ELSE 10

\* "Prepare table data": the empty-table warning replaces the missing message
Finish(out, rows) ==
    [out EXCEPT !.missing_message =
                    IF Len(out.data) = 0
                    THEN [kind |-> "empty_after_ops", counts |-> NoCounts]
                    ELSE @]
    @@ [page_size |-> PageSize(out.data, rows)]

\* The callback.  trig is ctx.triggered[0]['prop_id']; rounded: what the
\* doubles round in a detection (see Roundings) or in an imputation (see
\* ImputeRoundings).
handle_data_cleaning(data, selected_columns, method, rows, trig, duplicates_data, outliers_data, outlier_cols, outlier_method, outlier_threshold, outlier_handling, rounded) ==
    IF data = <<>> THEN NoDataReturn @@ [page_size |-> 10]
    ELSE
    LET df == data
        base == Defaults(df, duplicates_data, outliers_data)
        out ==
          IF trig = "find-duplicates-button.n_clicks"
          THEN FindDuplicates(df, base)
          ELSE IF trig = "remove-duplicates-button.n_clicks" /\ duplicates_data # None
          THEN RemoveDuplicates(df, base)
          ELSE IF trig = "detect-outliers-button.n_clicks"
          THEN DetectOutliers(df, base, outlier_cols, outlier_method,
                              outlier_threshold, rounded)
          ELSE IF trig = "handle-outliers-button.n_clicks" /\ outliers_data # None
          THEN HandleOutliers(df, base, outliers_data, outlier_handling)
          ELSE IF trig = "apply-imputation-button.n_clicks"
          THEN ApplyImputation(df, base, selected_columns, method, rounded)
          ELSE base
    IN  Finish(out, rows)

\* ------------------------------------------------------------ input spaces
NumVals == {Num(1, 16), Num(8, 1)}
CellVals == {NULL} \cup NumVals
Row(a, b) == [c \in Cols |-> IF c = "a" THEN a ELSE b]

\* generated rows: column a may miss a value, column b is complete and constant
Rows == {Row(a, Num(8, 1)) : a \in CellVals}
I(k) == Num(k, 1)

\* a = [1,2,3,4,100], b = [100,2,3,4,1]
FixtureIqr ==
    << Row(I(1), I(100)), Row(I(2), I(2)), Row(I(3), I(3)),
       Row(I(4), I(4)), Row(I(100), I(1)) >>

\* duplicates, missing cells and an outlier in one table
FixtureMixed ==
    << Row(Num(1, 16), NULL), Row(Num(1, 16), I(8)), Row(Num(1, 16), I(8)),
       Row(NULL, I(8)), Row(I(8), I(8)), Row(Num(1, 16), I(8)) >>

\* values that no double holds exactly.  With the IQR method and the default
\* threshold 0.8 lies on the upper bound of a = [0.1, 0.2, 0.3, 0.8]; with the
\* Z-score method and threshold 1 the z-scores of 0.2 and 0.4 in
\* b = [0.2, 0.3, 0.4, None] are -1 and 1.
FixtureTies ==
    << Row(Num(1, 10), Num(1, 5)), Row(Num(1, 5), Num(3, 10)),
       Row(Num(3, 10), Num(2, 5)), Row(Num(4, 5), NULL) >>

Fixtures == {FixtureIqr, FixtureMixed}

\* a text column and a numeric column, each with a missing cell:
\* a = ["y","x",None,"x"], b = [8, 0.0625, 8, None]
FixtureText ==
    << Row(Str(2), I(8)), Row(Str(1), Num(1, 16)), Row(NULL, I(8)),
       Row(Str(1), NULL) >>

\* a one-row file whose column b holds text: a = [8], b = ["x"]
FixtureStale == << Row(I(8), Str(1)) >>

Datasets == UNION {[1..k -> Rows] : k \in 1..MaxRows} \cup Fixtures

\* a second file replaces the table by a shorter one: a generated table of at
\* most MaxReRows rows, or the one-row file with text
ReUploads == UNION {[1..k -> Rows] : k \in 1..MaxReRows} \cup {FixtureStale}

ColumnSets == SUBSET Cols
OutlierMethods == {"iqr", "zscore", "None"}
Thresholds == {NULL, Num(0, 1), Num(1, 4), Num(-1, 1)}
\* a cleared method is tried with the empty threshold only; without a
\* selected column neither the method nor the threshold is read
DetectInputs ==
    {<<oc, om, ot>> \in ColumnSets \X OutlierMethods \X Thresholds :
        /\ om = "None" => ot = NULL
        /\ oc = {} => (om = "iqr" /\ ot = NULL)}

HandlingMethods == {"remove", "median", "mean", "None"}
ImputationMethods == {"mean", "median", "mode", "knn", "None"}
\* without a selected column the method is not read
ImputeInputs ==
    {<<sc, m>> \in ColumnSets \X ImputationMethods : sc = {} => m = "mean"}
RowsOptions == {ROWS_NONE, 5, ROWS_ALL}

\* -------------------------------------------------------------------- state
VARIABLES
    data_table,          \* data-table.data: the uploaded dataset
    imputed_table,       \* imputed-table.data: the cleaned table
    imputed_columns,     \* imputed-table.columns
    missing_message,     \* missing-values-message.children
    remove_disabled,     \* remove-duplicates-button.disabled
    duplicates_message,  \* duplicates-message.children
    duplicates_store,    \* duplicates-store.data
    handle_disabled,     \* handle-outliers-button.disabled
    outliers_message,    \* outliers-message.children
    outliers_store,      \* outliers-store.data
    success_toast,       \* imputation-success-toast.is_open
    warning_toast,       \* imputation-warning-toast.is_open
    raised,              \* the last run of the cleaning callback ended with
                         \* an uncaught exception
    pending,             \* the callbacks requested and not answered yet
    downloaded,          \* the file saved by the last download
    req,                 \* the last event served and its inputs
    stale,               \* rows were removed since the last outlier detection
    recorded,            \* the selector values read by the last recorded event
    encoding_preview,    \* encoding_preview_table: data and columns
    encoding_message,    \* encoding_message.children
    encoding_data_store, \* dcc.Store encoding_data_store
    encoding_toggle,     \* encoding_show_encoded_toggle.value is [1]
    trained_model_store,         \* dcc.Store trained-model-store
    feature_info_store,          \* dcc.Store feature-info-store
    prediction_upload_status,    \* prediction-upload-status.children
    prediction_df_store,         \* dcc.Store prediction-df-store
    prediction_results,          \* prediction-results.children
    test_result,                 \* test-result.children
    test_table,                  \* test-table.data and test-table.columns
    series,                      \* the column handed to the type detection
    detected_type,               \* what detect_data_type made of it
    regression_inputs,           \* calculate-regression.n_clicks and the values
                                 \* of the two regression dropdowns
    regression_error,            \* what perform_regression answered, and
                                 \* regression-error.is_open
    model_performance_store,     \* dcc.Store model-performance-store
    training_status,             \* training-status.children
    predict_button_file_disabled, \* predict-button-file.disabled
    prediction_features,         \* prediction-features-dropdown.value
    manual_inputs                \* manual-inputs-container.children and
                                 \* predict-button-manual.disabled

\* imputed-table.page_size is computed by the callback (PageSize) and is a
\* display attribute only: it is not part of the state
outputs == <<imputed_table, imputed_columns, missing_message,
             remove_disabled, duplicates_message, duplicates_store,
             handle_disabled, outliers_message, outliers_store,
             success_toast, warning_toast>>

\* what the cleaning callback and the downstream callbacks leave alone
encoding == <<encoding_preview, encoding_message, encoding_data_store,
              encoding_toggle>>
training == <<trained_model_store, feature_info_store,
              model_performance_store, training_status,
              predict_button_file_disabled, prediction_upload_status,
              prediction_df_store, prediction_results,
              prediction_features, manual_inputs>>
tests == <<test_result, test_table, series, detected_type,
           regression_inputs, regression_error>>
extra == <<recorded, encoding, training, tests>>

\* the requests in flight and the file on the user's disk
transit == <<pending, downloaded>>

vars == <<data_table, outputs, raised, transit, req, stale, extra>>

\* cols: the outlier columns of a detection that stored a report;
\* handling: the policy of a handle-outliers request
Request(trig, cols, handling) ==
    [trig |-> trig, cols |-> cols, handling |-> handling]

\* A callback that another callback's answer or a click has triggered and
\* whose own answer has not arrived; the selectors of the imputation are
\* the only State kept, the others are read from the page when the answer
\* is computed (no event changes them in between without a new request).
Requested(callback, trig, selected_columns, method) ==
    [callback |-> callback, trig |-> trig,
     selected_columns |-> selected_columns, method |-> method]

\* the browser drops the answer of a request once the same callback has
\* been requested again
Drop(requests, callback) == {q \in requests : q.callback # callback}

\* the browser sends request r
Send(requests, r) == Drop(requests, r.callback) \cup {r}

\* variant: the cleaned table is written back to data-table.data
DataTableAfter_cleaned(data, out) == out.data

\* the callback has no Output on data-table.data
DataTableAfter(data, out) == data

\* Dash writes the returned tuple to the Outputs; after an exception it
\* writes nothing
WriteOutputs(data, out) ==
    /\ data_table' = DataTableAfter(data, out)
    /\ raised' = out.raised
    /\ IF out.raised
       THEN UNCHANGED outputs
       ELSE /\ imputed_table' = out.data
            /\ imputed_columns' = out.columns
            /\ missing_message' = out.missing_message
            /\ remove_disabled' = out.remove_disabled
            /\ duplicates_message' = out.duplicates_message
            /\ duplicates_store' = out.duplicates_store
            /\ handle_disabled' = out.handle_disabled
            /\ outliers_message' = out.outliers_message
            /\ outliers_store' = out.outliers_store
            /\ success_toast' = out.success_toast
            /\ warning_toast' = out.warning_toast

\* variant: the callback works on the table it produced last
InputData_cleaned(data, cleaned) ==
    IF data = <<>> \/ cleaned = <<>> THEN data ELSE cleaned

\* the callback's first argument is data-table.data, not its own output
InputData(data, cleaned) == data

\* one run of the callback on the current component properties
Cleaning(data, trig, rows, selected_columns, method, outlier_cols, outlier_method, outlier_threshold, outlier_handling, rounded) ==
    handle_data_cleaning(InputData(data, imputed_table), selected_columns, method, rows, trig,
                         duplicates_store, outliers_store,
                         outlier_cols, outlier_method, outlier_threshold,
                         outlier_handling, rounded)

\* an event that enters none of the branches
Other(data, trig, rows) ==
    Cleaning(data, trig, rows, {}, "None", {}, "None", NULL, "None", {})

\* the page after its first load: parse_data has answered without contents
\* and every callback it triggers has answered
Init ==
    \E out \in {Other(<<>>, "", 10)} :
        /\ data_table = <<>>
        /\ imputed_table = out.data
        /\ imputed_columns = out.columns
        /\ missing_message = out.missing_message
        /\ remove_disabled = out.remove_disabled
        /\ duplicates_message = out.duplicates_message
        /\ duplicates_store = out.duplicates_store
        /\ handle_disabled = out.handle_disabled
        /\ outliers_message = out.outliers_message
        /\ outliers_store = out.outliers_store
        /\ success_toast = out.success_toast
        /\ warning_toast = out.warning_toast
        /\ raised = FALSE
        /\ pending = {}
        /\ downloaded = None
        /\ req = Request("", {}, "None")
        /\ stale = FALSE
        /\ recorded = None
        /\ encoding_preview = [data |-> <<>>, columns |-> {}]
        /\ encoding_message = [kind |-> ""]
        /\ encoding_data_store = None
        /\ encoding_toggle = FALSE
        /\ trained_model_store = None
        /\ feature_info_store = None
        /\ model_performance_store = None
        /\ training_status = ""
        /\ predict_button_file_disabled = TRUE
        /\ prediction_upload_status = "upload_a_file"
        /\ prediction_df_store = None
        /\ prediction_results = [kind |-> "train_first"]
        /\ prediction_features = <<>>
        /\ manual_inputs = [fields |-> <<>>, disabled |-> TRUE]
        /\ test_result = "select"
        /\ test_table = [data |-> 0, columns |-> 0]
        /\ series = None
        /\ detected_type = ""
        /\ regression_inputs = [n_clicks |-> 0, x_var |-> "", y_var |-> ""]
        /\ regression_error = [kind |-> "", is_open |-> FALSE]

\* parse_data answers with the records of the file (none for a missing,
\* unsupported or unreadable file) and Dash writes them to data-table.data;
\* the callbacks with an Input on data-table.data are requested:
\* handle_data_cleaning, perform_test once update_test_dropdowns has
\* emptied the two variable dropdowns, and perform_regression.  Their
\* answers are events of their own.
parse_data(ds) ==
    /\ data_table' = ds
    /\ pending' = Send(Send(Send(pending,
                                 Requested("handle_data_cleaning",
                                           "data-table.data", {}, "None")),
                            Requested("perform_test", "data-table.data",
                                      {}, "None")),
                       Requested("perform_regression", "data-table.data",
                                 {}, "None"))
    /\ req' = Request("upload-data.contents", {}, "None")
    /\ UNCHANGED <<outputs, raised, downloaded, stale>>

\* a file is uploaded: a first one once the empty page has been answered, or
\* a shorter one of ReUploads at any moment
Upload(ds) ==
    /\ \/ data_table = <<>> /\ Drop(pending, "handle_data_cleaning") = pending
       \/ ds \in ReUploads /\ Len(ds) < Len(data_table)
    /\ parse_data(ds)
    /\ UNCHANGED extra

\* parse_data without contents, with an unsupported or unreadable file
UploadNothing ==
    /\ parse_data(<<>>)
    /\ UNCHANGED extra

\* what the doubles can round in the requested run r of handle_data_cleaning
RequestRoundings(r) ==
    IF r.trig = "apply-imputation-button.n_clicks" /\ data_table # <<>>
    THEN ImputeRoundings(data_table, r.selected_columns, r.method)
    ELSE {}

\* The answer of the requested run of handle_data_cleaning arrives and is
\* written.  No event changes an argument of the run between the request
\* and the answer without requesting the callback again, so the run is
\* computed from the page as it is.
AnswerCleaning ==
    \E r \in {q \in pending : q.callback = "handle_data_cleaning"} :
       \E rounded \in SUBSET RequestRoundings(r) :
       \E out \in {Cleaning(data_table, r.trig, 10, r.selected_columns,
                            r.method, {}, "None", NULL, "None", rounded)} :
          /\ WriteOutputs(data_table, out)
          /\ pending' = pending \ {r}
          /\ req' = Request(r.trig, {}, "None")
          /\ stale' = (stale /\ data_table # <<>>)  \* no data: no report is left
          /\ UNCHANGED <<downloaded, extra>>

\* A click or a change that requests handle_data_cleaning alone and is
\* answered before the next event: an unanswered request of the callback
\* is replaced.
Supersedes ==
    /\ pending' = Drop(pending, "handle_data_cleaning")
    /\ UNCHANGED downloaded

\* imputation-columns.value or missing-method.value changes
ChangeImputationInput(trig) ==
    /\ \E out \in {Other(data_table, trig, 10)} :
          WriteOutputs(data_table, out)
    /\ Supersedes
    /\ req' = Request(trig, {}, "None")
    /\ UNCHANGED <<stale, extra>>

\* imputation-rows.value changes
ChangeRows(rows) ==
    /\ \E out \in {Other(data_table, "imputation-rows.value", rows)} :
          WriteOutputs(data_table, out)
    /\ Supersedes
    /\ req' = Request("imputation-rows.value", {}, "None")
    /\ UNCHANGED <<stale, extra>>

ClickFindDuplicates ==
    /\ \E out \in {Other(data_table, "find-duplicates-button.n_clicks",
                         10)} :
          WriteOutputs(data_table, out)
    /\ Supersedes
    /\ req' = Request("find-duplicates-button.n_clicks", {}, "None")
    /\ UNCHANGED <<stale, extra>>

\* a disabled button delivers no click: no callback runs, nothing changes
Ignored == UNCHANGED vars

ClickRemoveDuplicates ==
    LET trig == "remove-duplicates-button.n_clicks"
    IN  IF remove_disabled THEN Ignored
        ELSE \E out \in {Other(data_table, trig, 10)} :
             /\ WriteOutputs(data_table, out)
             /\ Supersedes
             /\ req' = Request(trig, {}, "None")
             /\ stale' = (stale \/ (duplicates_store # None /\ data_table # <<>>))
             /\ UNCHANGED extra

ClickDetectOutliers(outlier_cols, outlier_method, outlier_threshold) ==
    LET trig == "detect-outliers-button.n_clicks"
    IN  \E rounded \in SUBSET Roundings(data_table, outlier_cols,
                                          outlier_method, outlier_threshold) :
        \E out \in {Cleaning(data_table, trig, 10, {}, "None",
                             outlier_cols, outlier_method, outlier_threshold,
                             "None", rounded)} :
        /\ WriteOutputs(data_table, out)
        /\ Supersedes
        /\ req' = Request(trig,
                          IF ~out.raised /\ out.outliers_store # None
                             /\ data_table # <<>> /\ outlier_cols # {}
                          THEN outlier_cols ELSE {},
                          "None")
        /\ stale' = IF data_table # <<>> /\ outlier_cols # {} /\ ~out.raised
                    THEN FALSE ELSE stale
        /\ UNCHANGED extra

ClickHandleOutliers(outlier_handling) ==
    LET trig == "handle-outliers-button.n_clicks"
    IN  IF handle_disabled THEN Ignored
        ELSE \E out \in {Cleaning(data_table, trig, 10, {}, "None",
                                  {}, "None", NULL, outlier_handling, {})} :
             /\ WriteOutputs(data_table, out)
             /\ Supersedes
             /\ req' = Request(trig, {}, outlier_handling)
             /\ stale' = (stale \/ (/\ outliers_store # None
                                    /\ data_table # <<>>
                                    /\ outlier_handling = "remove"
                                    /\ ~out.raised))
             /\ UNCHANGED extra

\* The second callback on the "Apply Imputation" button.
handle_imputation_button(n_clicks, selected_columns) ==
    IF n_clicks = 0
    THEN [success_toast |-> FALSE, warning_toast |-> FALSE]
    ELSE IF selected_columns = {}
    THEN [success_toast |-> FALSE, warning_toast |-> TRUE]
    ELSE [success_toast |-> TRUE, warning_toast |-> FALSE]

\* The click on "Apply Imputation" requests two callbacks,
\* handle_data_cleaning and handle_imputation_button; each answers on its
\* own, in either order, and other events are served in between.
ClickApplyImputation(selected_columns, method) ==
    /\ pending' = Send(Send(pending,
                            Requested("handle_data_cleaning",
                                      "apply-imputation-button.n_clicks",
                                      selected_columns, method)),
                       Requested("handle_imputation_button",
                                 "apply-imputation-button.n_clicks",
                                 selected_columns, "None"))
    /\ UNCHANGED <<data_table, outputs, raised, downloaded, req, stale, extra>>

\* the answer of handle_imputation_button arrives: the two toasts are written
AnswerImputationButton ==
    \E r \in {q \in pending : q.callback = "handle_imputation_button"} :
       \E out \in {handle_imputation_button(1, r.selected_columns)} :
          /\ success_toast' = out.success_toast
          /\ warning_toast' = out.warning_toast
          /\ pending' = pending \ {r}
          /\ UNCHANGED <<data_table, imputed_table, imputed_columns,
                         missing_message, remove_disabled, duplicates_message,
                         duplicates_store, handle_disabled, outliers_message,
                         outliers_store, raised, downloaded, req, stale, extra>>

\* df.to_csv(index=False) writes a missing cell as an empty field, a number
\* as its shortest decimal text and a string as itself: the text of a
\* number and the number give the same kind of field
to_csv(df) ==
    [i \in 1..Len(df) |->
        [c \in ColumnsOf(df) |->
            IF IsNull(df[i][c]) THEN [field |-> "empty"]
            ELSE IF IsNum(df[i][c]) \/ IsText(df[i][c])
                 THEN [field |-> "number", n |-> df[i][c].n, d |-> df[i][c].d]
                 ELSE [field |-> "word", k |-> df[i][c].n]]]

\* pd.read_csv(...).to_dict("records").  The type is inferred for a column
\* as a whole: where every field is a number or empty the column is
\* numeric, and where one field is a word the column is object and its
\* numbers stay the texts they are in the file.
read_csv(csv) ==
    [i \in 1..Len(csv) |->
        [c \in ColumnsOf(csv) |->
            IF csv[i][c].field = "empty" THEN NULL
            ELSE IF csv[i][c].field = "word" THEN Str(csv[i][c].k)
            ELSE IF \E j \in 1..Len(csv) : csv[j][c].field = "word"
                 THEN Text(Num(csv[i][c].n, csv[i][c].d))
                 ELSE Num(csv[i][c].n, csv[i][c].d)]]

\* the selector values of a detection, kept for inspection
DetectionInputs(outlier_cols, outlier_method, outlier_threshold) ==
    [outlier_cols |-> outlier_cols, outlier_method |-> outlier_method,
     outlier_threshold |-> outlier_threshold]

\* the selector values of an imputation; source is the imputation whose
\* downloaded result was uploaded last, None when there was none
ImputationInputs(selected_columns, method, source) ==
    [selected_columns |-> selected_columns, method |-> method, source |-> source]

\* the "Detect Outliers" click, its selector values kept
DetectOutliersRecorded(outlier_cols, outlier_method, outlier_threshold) ==
    LET trig == "detect-outliers-button.n_clicks"
    IN  /\ \E rounded \in SUBSET Roundings(data_table, outlier_cols,
                                             outlier_method, outlier_threshold) :
           \E out \in {Cleaning(data_table, trig, 10, {}, "None",
                                outlier_cols, outlier_method, outlier_threshold,
                                "None", rounded)} :
              WriteOutputs(data_table, out)
        /\ Supersedes
        /\ req' = Request(trig, {}, "None")
        /\ recorded' = Some(DetectionInputs(outlier_cols, outlier_method,
                                            outlier_threshold))
        /\ UNCHANGED <<stale, encoding, training, tests>>

\* AnswerCleaning with the selector values of an imputation kept
AnswerCleaningRecorded ==
    \E r \in {q \in pending : q.callback = "handle_data_cleaning"} :
       /\ \E rounded \in SUBSET RequestRoundings(r) :
          \E out \in {Cleaning(data_table, r.trig, 10, r.selected_columns,
                               r.method, {}, "None", NULL, "None", rounded)} :
             WriteOutputs(data_table, out)
       /\ pending' = pending \ {r}
       /\ req' = Request(r.trig, {}, "None")
       /\ recorded' =
            IF r.trig # "apply-imputation-button.n_clicks" THEN recorded
            ELSE Some(ImputationInputs(r.selected_columns, r.method,
                        IF /\ req.trig \in {"data-table.data",
                                            "upload-data.contents"}
                           /\ recorded # None
                           /\ "source" \in DOMAIN recorded[1]
                        THEN recorded[1].source ELSE None))
       /\ UNCHANGED <<downloaded, stale, encoding, training, tests>>

\* download_imputed_csv: the result of an imputation is saved as a CSV file
\* (with it, for inspection, the imputation it is the result of)
download_imputed_csv ==
    /\ req.trig = "apply-imputation-button.n_clicks"
    /\ imputed_table # <<>>
    /\ downloaded' =
          Some([csv |-> to_csv(imputed_table),
                source |-> [selected_columns |-> recorded[1].selected_columns,
                            method |-> recorded[1].method,
                            table |-> data_table,
                            result |-> imputed_table]])
    /\ UNCHANGED <<data_table, outputs, raised, pending, req, stale, extra>>

\* the downloaded file is uploaded: parse_data reads it
UploadCleaned ==
    /\ downloaded # None
    /\ parse_data(read_csv(downloaded[1].csv))
    /\ recorded' = Some(ImputationInputs({}, "None", Some(downloaded[1].source)))
    /\ UNCHANGED <<encoding, training, tests>>

\* the selector values of the specifications that interleave every event
FewDetectInputs ==
    {<<{"a"}, "iqr", NULL>>, <<{"a", "b"}, "iqr", NULL>>,
     <<{"a"}, "zscore", Num(-1, 1)>>, <<{}, "iqr", NULL>>,
     <<{"a"}, "None", NULL>>}
FewImputeInputs ==
    {<<{}, "mean">>, <<{"a"}, "knn">>, <<{"a", "b"}, "mean">>}

\* every event of the cleaning page and every answer, in any order, on the
\* fixture tables and the shorter tables uploaded over them
Next ==
    \/ \E ds \in Fixtures \cup (ReUploads \ {FixtureStale}) : Upload(ds)
    \/ UploadNothing
    \/ AnswerCleaning
    \/ \E trig \in {"imputation-columns.value", "missing-method.value"} :
          ChangeImputationInput(trig)
    \/ \E rows \in RowsOptions : ChangeRows(rows)
    \/ ClickFindDuplicates
    \/ ClickRemoveDuplicates
    \/ \E di \in FewDetectInputs : ClickDetectOutliers(di[1], di[2], di[3])
    \/ \E oh \in HandlingMethods : ClickHandleOutliers(oh)
    \/ \E ii \in FewImputeInputs : ClickApplyImputation(ii[1], ii[2])
    \/ AnswerImputationButton

Spec == Init /\ [][Next]_vars

\* duplicates on the generated tables
NextTables ==
    \/ \E ds \in Datasets : Upload(ds)
    \/ UploadNothing
    \/ AnswerCleaning
    \/ \E rows \in RowsOptions : ChangeRows(rows)
    \/ ClickFindDuplicates
    \/ ClickRemoveDuplicates

SpecTables == Init /\ [][NextTables]_vars

\* the Z-score detection whose threshold the z-scores of FixtureTies meet
TieInputs == {<<{"b"}, "zscore", Num(1, 1)>>}

\* detection and handling of outliers on the generated tables, on the table
\* with values on a bound and on the file with text uploaded over them
NextOutliers ==
    \/ \E ds \in Datasets \cup {FixtureTies, FixtureStale} : Upload(ds)
    \/ AnswerCleaning
    \/ \E di \in DetectInputs \cup TieInputs :
          ClickDetectOutliers(di[1], di[2], di[3])
    \/ \E oh \in HandlingMethods : ClickHandleOutliers(oh)

SpecOutliers == Init /\ [][NextOutliers]_vars

\* a numeric column with two missing cells: a = [None, 0.0625, None]
FixtureGaps ==
    << Row(NULL, I(8)), Row(Num(1, 16), I(8)), Row(NULL, I(8)) >>

\* equal values that no double holds exactly: a = [0.1, 0.1, 0.1]
FixtureTenths ==
    << Row(Num(1, 10), I(8)), Row(Num(1, 10), I(8)), Row(Num(1, 10), I(8)) >>

\* detection and imputation as functions of the uploaded table and of the
\* selector values, on the generated tables and the fixtures
RecordedDatasets == Datasets \cup {FixtureText, FixtureGaps, FixtureTenths}

\* the first upload of a session
FirstUpload(ds) ==
    /\ data_table = <<>>
    /\ Upload(ds)

\* detections of a session
NextRecorded ==
    \/ \E ds \in RecordedDatasets \cup {FixtureTies} : FirstUpload(ds)
    \/ AnswerCleaningRecorded
    \/ \E di \in DetectInputs \cup TieInputs :
          DetectOutliersRecorded(di[1], di[2], di[3])

SpecRecorded == Init /\ [][NextRecorded]_vars

\* a mean that lies halfway between two roundings and that no double holds
\* exactly: a = [0.5015, None]
FixtureHalves == << Row(Num(1003, 2000), I(8)), Row(NULL, I(8)) >>

\* a sheet whose column a holds a number, a string and an empty cell
\* (read_excel keeps the type of every cell): a = [8, "x", None],
\* b = [None, 8, 8]
FixtureSheet == << Row(I(8), NULL), Row(Str(1), I(8)), Row(NULL, I(8)) >>

ImputationTables == RecordedDatasets \cup {FixtureHalves, FixtureSheet}

\* imputations of a session
NextImputation ==
    \/ \E ds \in ImputationTables : FirstUpload(ds)
    \/ AnswerCleaningRecorded
    \/ \E ii \in ImputeInputs : ClickApplyImputation(ii[1], ii[2])

SpecImputation == Init /\ [][NextImputation]_vars

\* mean imputation, download of its result, upload of the downloaded file
\* and mean imputation again
NextReimpute ==
    \/ \E ds \in ImputationTables : FirstUpload(ds)
    \/ AnswerCleaningRecorded
    \/ download_imputed_csv
    \/ UploadCleaned
    \/ \E ii \in {jj \in ImputeInputs : jj[2] = "mean"} :
          ClickApplyImputation(ii[1], ii[2])

SpecReimpute == Init /\ [][NextReimpute]_vars

\* ---------------------------------------------------- the encoding page
\* the text of the string cell of rank k: str(value)
StrText(k) == <<"x", "y", "z">>[k]

\* df[column].dropna().unique(), as a set
UniqueValues(df, column) ==
    {df[i][column] : i \in {j \in 1..Len(df) : ~IsNull(df[j][column])}}

\* sorted(values) of string cells
SortedValues(S) ==
    LET ranks == SetToSortedSeq({v.n : v \in S})
    IN  [k \in 1..Len(ranks) |-> Str(ranks[k])]

\* f"{column}_encoded", f"{column}_ordinal" and the get_dummies name
\* f"{prefix}_{value}"
EncodedName(column) == column \o "_encoded"
OrdinalName(column) == column \o "_ordinal"
DummyName(column, v) == column \o "_" \o StrText(v.n)

\* encoded_df[name] = s, then to_dict("records"): one value per column name
AddColumn(df, name, s) ==
    [i \in 1..Len(df) |->
        [c \in ColumnsOf(df) \cup {name} |-> IF c = name THEN s[i] ELSE df[i][c]]]

\* df[cols].to_dict("records")
Project(df, cols) == [i \in 1..Len(df) |-> [c \in cols |-> df[i][c]]]

\* le.classes_: the sorted distinct values, a missing value last
LabelClasses(s) ==
    SortedValues({s[i] : i \in {j \in 1..Len(s) : ~IsNull(s[j])}})
    \o (IF AnyNa(s) THEN <<NULL>> ELSE <<>>)

\* le.fit_transform(s): the position of each cell in classes_, from 0
LabelCodes(s) ==
    [i \in 1..Len(s) |->
        I((CHOOSE k \in 1..Len(LabelClasses(s)) : LabelClasses(s)[k] = s[i]) - 1)]

\* variant: {i: label for i, label in enumerate(le.classes_, 1)}
LabelMapping_from_one(s) ==
    [k \in 1..Len(LabelClasses(s)) |-> LabelClasses(s)[k]]

\* mapping = {i: label for i, label in enumerate(le.classes_)}
LabelMapping(s) ==
    [k \in 0..(Len(LabelClasses(s)) - 1) |-> LabelClasses(s)[k + 1]]

\* the four Outputs of apply_encoding
EncodingReturn(data, columns, message, store) ==
    [data |-> data, columns |-> columns, message |-> message, store |-> store]

\* except Exception as e: return [], [], "Error: ...", None
EncodingError == EncodingReturn(<<>>, {}, [kind |-> "error"], None)

\* "Return based on show_encoded_only toggle" and the toggle branch
Display(full_df, column_name, derived, show_encoded_only) ==
    IF ~show_encoded_only THEN full_df
    ELSE Project(full_df, {column_name} \cup derived)

\* the names of the columns an encoding derived
DerivedColumns(store) ==
    IF store.encoding_type = "onehot" THEN store.new_columns
    ELSE {store.encoded_column}

\* the successful return of the apply branch
Encoded(store, show_encoded_only) ==
    LET shown == Display(store.full_df, store.column_name,
                         DerivedColumns(store), show_encoded_only)
    IN  EncodingReturn(shown, ColumnsOf(shown),
                       [kind |-> store.encoding_type], Some(store))

\* encoding_type == "label"; missing_ok: the installed LabelEncoder accepts
\* a column with missing cells (it raises TypeError otherwise)
LabelEncoding(df, column, show_encoded_only, missing_ok) ==
    IF AnyNa(Column(df, column)) /\ ~missing_ok THEN EncodingError
    ELSE Encoded([full_df |-> AddColumn(df, EncodedName(column),
                                        LabelCodes(Column(df, column))),
                  column_name |-> column,
                  encoded_column |-> EncodedName(column),
                  encoding_type |-> "label",
                  mapping |-> LabelMapping(Column(df, column))],
                 show_encoded_only)

\* the cell of an indicator column: get_dummies makes uint8 columns of 1
\* and 0 before pandas 2.0 and bool columns of True and False since
Indicator(set, bool_dummies) ==
    IF bool_dummies THEN Bool(set) ELSE I(IF set THEN 1 ELSE 0)

\* pd.get_dummies(df[column], prefix=column): one indicator column per
\* distinct non-null value; bool_dummies: the installed pandas makes them
\* bool columns
Dummies(df, column, bool_dummies) ==
    [i \in 1..Len(df) |->
        [c \in {DummyName(column, v) : v \in UniqueValues(df, column)} |->
            Indicator(/\ ~IsNull(df[i][column])
                      /\ c = DummyName(column, df[i][column]),
                      bool_dummies)]]

\* dummies.columns.tolist()
DummyColumns(df, column, bool_dummies) ==
    DOMAIN Dummies(df, column, bool_dummies)[1]

\* encoding_type == "onehot": pd.concat([df, dummies], axis=1) and
\* to_dict("records"), where the last column of a name gives its value
OneHotEncoding(df, column, show_encoded_only, bool_dummies) ==
    Encoded([full_df |-> [i \in 1..Len(df) |->
                            [c \in ColumnsOf(df)
                                   \cup DummyColumns(df, column, bool_dummies) |->
                                IF c \in DummyColumns(df, column, bool_dummies)
                                THEN Dummies(df, column, bool_dummies)[i][c]
                                ELSE df[i][c]]],
             column_name |-> column,
             new_columns |-> DummyColumns(df, column, bool_dummies),
             encoding_type |-> "onehot"],
            show_encoded_only)

\* ordinal_map: from the order of the dropdown, or from the sorted values
\* of df[column].unique(); the key None of a column without a value is
\* written "None"
OrdinalMap(df, column, ordinal_values) ==
    IF ordinal_values # <<>>
    THEN [t \in Range(ordinal_values) |->
            (CHOOSE k \in 1..Len(ordinal_values) : ordinal_values[k] = t) - 1]
    ELSE IF UniqueValues(df, column) = {}
    THEN [t \in {"None"} |-> 0]
    ELSE LET unique_values == SortedValues(UniqueValues(df, column))
         IN  [t \in {StrText(v.n) : v \in Range(unique_values)} |->
                (CHOOSE k \in 1..Len(unique_values) :
                    StrText(unique_values[k].n) = t) - 1]

\* df[column].map(ordinal_map): a value that is not a key gives NaN
MapValues(s, ordinal_map) ==
    [i \in 1..Len(s) |->
        IF IsNull(s[i])
        THEN (IF "None" \in DOMAIN ordinal_map THEN I(ordinal_map["None"])
              ELSE NULL)
        ELSE IF StrText(s[i].n) \in DOMAIN ordinal_map
        THEN I(ordinal_map[StrText(s[i].n)]) ELSE NULL]

\* encoding_type == "ordinal"; without an order, sorted() of strings and
\* None raises TypeError (sorted([None]) does not)
OrdinalEncoding(df, column, show_encoded_only, ordinal_values) ==
    IF /\ ordinal_values = <<>>
       /\ AnyNa(Column(df, column))
       /\ UniqueValues(df, column) # {}
    THEN EncodingError
    ELSE Encoded([full_df |-> AddColumn(df, OrdinalName(column),
                                  MapValues(Column(df, column),
                                      OrdinalMap(df, column, ordinal_values))),
                  column_name |-> column,
                  encoded_column |-> OrdinalName(column),
                  encoding_type |-> "ordinal",
                  mapping |-> OrdinalMap(df, column, ordinal_values)],
                 show_encoded_only)

\* branch trigger_id == "encoding_show_encoded_toggle" and stored_encoded_df
ToggleDisplay(stored, show_encoded_only) ==
    IF show_encoded_only /\ ~(DerivedColumns(stored) \subseteq ColumnsOf(stored.full_df))
    THEN EncodingReturn(<<>>, {}, [kind |-> "not_found"], Some(stored))
    ELSE LET shown == Display(stored.full_df, stored.column_name,
                              DerivedColumns(stored), show_encoded_only)
         IN  EncodingReturn(shown, ColumnsOf(shown), [kind |-> "no_update"],
                            Some(stored))

\* The callback.  trigger_id is ctx.triggered[0]["prop_id"].split(".")[0].
apply_encoding(trigger_id, show_encoded_only, data, column, encoding_type, stored_encoded_df, ordinal_values, missing_ok, bool_dummies) ==
    IF data = <<>>
    THEN EncodingReturn(<<>>, {}, [kind |-> "no_data"], None)
    ELSE IF trigger_id = "encoding_apply_button"
    THEN IF column = "" \/ encoding_type = "None"
         THEN EncodingReturn(<<>>, {}, [kind |-> "select"], None)
         ELSE IF column \notin ColumnsOf(data) THEN EncodingError
         ELSE IF encoding_type = "label"
         THEN LabelEncoding(data, column, show_encoded_only, missing_ok)
         ELSE IF encoding_type = "onehot"
         THEN OneHotEncoding(data, column, show_encoded_only, bool_dummies)
         ELSE OrdinalEncoding(data, column, show_encoded_only, ordinal_values)
    ELSE IF stored_encoded_df # None
    THEN ToggleDisplay(stored_encoded_df[1], show_encoded_only)
    ELSE EncodingReturn(<<>>, {}, [kind |-> "no_update"], None)

\* the Outputs are written; dash.no_update keeps the message
WriteEncoding(out) ==
    /\ encoding_preview' = [data |-> out.data, columns |-> out.columns]
    /\ encoding_message' = IF out.message.kind = "no_update"
                           THEN encoding_message ELSE out.message
    /\ encoding_data_store' = out.store

\* the selector values of an encoding
EncodingInputs(column, encoding_type, ordinal_values) ==
    [column |-> column, encoding_type |-> encoding_type,
     ordinal_values |-> ordinal_values]

\* the "Apply Encoding" click
ClickApplyEncoding(column, encoding_type, ordinal_values, missing_ok, bool_dummies) ==
    /\ \E out \in {apply_encoding("encoding_apply_button", encoding_toggle,
                                  data_table, column, encoding_type,
                                  encoding_data_store, ordinal_values,
                                  missing_ok, bool_dummies)} :
          WriteEncoding(out)
    /\ req' = Request("encoding_apply_button", {}, "None")
    /\ recorded' = Some(EncodingInputs(column, encoding_type, ordinal_values))
    /\ UNCHANGED <<data_table, outputs, raised, transit, stale, encoding_toggle,
                   training, tests>>

\* the show-only-encoded switch is flipped
SwitchShowEncoded ==
    /\ encoding_toggle' = ~encoding_toggle
    /\ \E out \in {apply_encoding("encoding_show_encoded_toggle",
                                  ~encoding_toggle, data_table, "", "None",
                                  encoding_data_store, <<>>, TRUE, FALSE)} :
          WriteEncoding(out)
    /\ req' = Request("encoding_show_encoded_toggle", {}, "None")
    /\ UNCHANGED <<data_table, outputs, raised, transit, stale, recorded,
                   training, tests>>

\* ---- the inputs of the encoding page
MaxEncRows == 2

\* a text column c and a numeric column
EncodingRow(other, c) == [k \in {"c", other} |-> IF k = "c" THEN c ELSE I(8)]
EncodingCells == {Str(1), Str(2), NULL}

\* c = ["z", "x", None, "x", "y"]
FixtureColors ==
    << EncodingRow("n", Str(3)), EncodingRow("n", Str(1)), EncodingRow("n", NULL),
       EncodingRow("n", Str(1)), EncodingRow("n", Str(2)) >>

\* c = ["y", "x"] beside a numeric column that bears the name of a
\* derived column
FixtureCollisions ==
    {<<EncodingRow(other, Str(2)), EncodingRow(other, Str(1))>> :
        other \in {"c_encoded", "c_ordinal", "c_x"}}

\* a column without a value: c = [None]
FixtureBlank == << EncodingRow("n", NULL) >>

EncodingTables ==
    {FixtureColors, FixtureBlank} \cup FixtureCollisions \cup
    UNION {{[i \in 1..n |-> EncodingRow("n", cs[i])] :
               cs \in {f \in [1..n -> EncodingCells] : \E i \in 1..n : IsStr(f[i])}} :
           n \in 1..MaxEncRows}

\* the values the ordinal dropdown can hold: any selection of the options,
\* in any order
OrdinalOrders(df, column) ==
    LET texts == {StrText(v.n) : v \in UniqueValues(df, column)}
    IN  UNION {{f \in [1..n -> texts] : \A i, j \in 1..n : f[i] = f[j] => i = j} :
               n \in 0..Cardinality(texts)}

EncodingMethods == {"label", "onehot", "ordinal", "None"}

\* update_encoding_column_options offers the non-numeric columns
EncodingColumns(df) ==
    {""} \cup (IF df = <<>> THEN {}
               ELSE {c \in ColumnsOf(df) : ~is_numeric_dtype(Column(df, c))})

\* the click with any value the selectors can hold: the ordinal dropdown is
\* empty unless the method is ordinal and a column is selected
ApplyEncoding ==
    \E column \in EncodingColumns(data_table), encoding_type \in EncodingMethods :
       \E ordinal_values \in (IF encoding_type = "ordinal" /\ column # ""
                              THEN OrdinalOrders(data_table, column)
                              ELSE {<<>>}) :
          \E missing_ok \in (IF encoding_type = "label" /\ column # ""
                             THEN BOOLEAN ELSE {TRUE}),
             bool_dummies \in (IF encoding_type = "onehot" /\ column # ""
                               THEN BOOLEAN ELSE {FALSE}) :
             ClickApplyEncoding(column, encoding_type, ordinal_values,
                                missing_ok, bool_dummies)

NextEncoding ==
    \/ \E ds \in EncodingTables : FirstUpload(ds)
    \/ UploadNothing
    \/ AnswerCleaning
    \/ ApplyEncoding
    \/ SwitchShowEncoded

SpecEncoding == Init /\ [][NextEncoding]_vars

\* ------------------------------------------------- the prediction page
\* "if len(df) < 10"
MinRowsToTrain == 10

\* df.dropna(subset=[target] + features)
DropNaSubset(df, subset) ==
    SelectIdx(df, {i \in 1..Len(df) : \A c \in subset : ~IsNull(df[i][c])})

\* variant: nine rows are enough
TooFewRows_nine(df) == Len(df) < MinRowsToTrain - 1

\* len(df) < 10
TooFewRows(df) == Len(df) < MinRowsToTrain

\* variant: the button is enabled by every return
TrainingReturn_enabled(model, feature_info, metrics, status, disabled) ==
    [model |-> model, feature_info |-> feature_info, metrics |-> metrics,
     status |-> status, disabled |-> FALSE]

\* the five Outputs of train_model
TrainingReturn(model, feature_info, metrics, status, disabled) ==
    [model |-> model, feature_info |-> feature_info, metrics |-> metrics,
     status |-> status, disabled |-> disabled]

\* "type" of feature_info[feature]: dropna keeps the dtype the column got
\* when pd.DataFrame(data) was built
FeatureType(data, feature) ==
    IF is_numeric_dtype(Column(data, feature)) THEN "numeric" ELSE "categorical"

\* feature_info[feature].  "std" is kept as its square std_sq, the sample
\* variance, or 1 where the deviation is not positive; "categories" is
\* unique() in order of first appearance.  Where the equal values of the
\* column have a rounded mean, std() is a tiny positive number, written
\* "tiny", and "mean" is the value up to its last bit.
FeatureInfo(data, df, feature, rounded) ==
    LET s == Column(df, feature)
    IN  IF FeatureType(data, feature) = "numeric"
        THEN [type |-> "numeric",
              mean |-> Mean(s),
              std_sq |-> IF RLt(Num(0, 1), Var(s)) THEN Var(s)
                         ELSE IF feature \in rounded
                              THEN [t |-> "tiny", n |-> 0, d |-> 1]
                              ELSE Num(1, 1)]
        ELSE [type |-> "categorical",
              categories |->
                  SelectIdx(s, {i \in 1..Len(s) :
                                  ~\E j \in 1..(i - 1) : s[j] = s[i]})]

\* "type" of target_info: a non-numeric target of at most 10 values is a class
TargetType(data, df, target) ==
    IF /\ ~is_numeric_dtype(Column(data, target))
       /\ Cardinality(Range(Column(df, target))) <= 10
    THEN "categorical" ELSE "numeric"

\* The callback.  features is the list of the features dropdown, in the
\* order of selection.  fits: train_test_split and the classifier accept
\* the prepared frame and the parameters (they raise otherwise); rounded:
\* the features whose mean the floating-point sum rounds (RoundedMeans).
train_model(n_clicks, data, target, features, fits, rounded) ==
    IF n_clicks = 0 \/ data = <<>> \/ target = "" \/ features = <<>>
    THEN TrainingReturn(None, None, None, "", TRUE)
    ELSE IF ~(({target} \cup Range(features)) \subseteq ColumnsOf(data))
    THEN TrainingReturn(None, None, None, "error", TRUE)
    ELSE IF TooFewRows(DropNaSubset(data, {target} \cup Range(features)))
    THEN TrainingReturn(None, None, None, "not_enough", TRUE)
    ELSE IF ~fits
    THEN TrainingReturn(None, None, None, "error", TRUE)
    ELSE TrainingReturn(
            Some([target |-> target, features |-> features,
                  target_info |->
                    TargetType(data,
                               DropNaSubset(data, {target} \cup Range(features)),
                               target)]),
            Some([f \in Range(features) |->
                    FeatureInfo(data,
                                DropNaSubset(data, {target} \cup Range(features)),
                                f, rounded)]),
            Some([n_samples |->
                    Len(DropNaSubset(data, {target} \cup Range(features)))]),
            "trained", FALSE)

\* the selector values of a training
TrainingInputs(target, features) == [target |-> target, features |-> features]

\* values of the features dropdown: nothing, one column, both columns
FeatureLists == {<<>>, <<"a">>, <<"b", "a">>}

\* the two Outputs of create_manual_input_fields: one input field per
\* selected feature, and predict-button-manual.disabled
create_manual_input_fields(selected_features, feature_info, model_info) ==
    IF selected_features = <<>> \/ feature_info = None \/ model_info = None
    THEN [fields |-> <<>>, disabled |-> TRUE]
    ELSE [fields |-> selected_features, disabled |-> FALSE]

\* the request of create_manual_input_fields after one of its Inputs changed
ManualFieldsRequested(trig) ==
    Requested("create_manual_input_fields", trig, {}, "None")

\* the features dropdown is set; it offers the columns of the uploaded table
SelectFeatures(features) ==
    /\ data_table = <<>> => features = <<>>
    /\ prediction_features' = features
    /\ pending' = Send(pending,
                       ManualFieldsRequested("prediction-features-dropdown.value"))
    /\ req' = Request("prediction-features-dropdown", {}, "None")
    /\ UNCHANGED <<data_table, outputs, raised, downloaded, stale, recorded,
                   encoding, tests, trained_model_store, feature_info_store,
                   model_performance_store, training_status,
                   predict_button_file_disabled, prediction_upload_status,
                   prediction_df_store, prediction_results, manual_inputs>>

\* the requested run of create_manual_input_fields is answered
AnswerManualInputFields ==
    \E r \in {q \in pending : q.callback = "create_manual_input_fields"} :
       /\ manual_inputs' = create_manual_input_fields(prediction_features,
                                                      feature_info_store,
                                                      trained_model_store)
       /\ pending' = pending \ {r}
       /\ UNCHANGED <<data_table, outputs, raised, downloaded, req, stale,
                      recorded, encoding, tests, trained_model_store,
                      feature_info_store, model_performance_store,
                      training_status, predict_button_file_disabled,
                      prediction_upload_status, prediction_df_store,
                      prediction_results, prediction_features>>

\* the "Train Model" click, with the features of the dropdown; the two
\* stores it writes are Inputs of create_manual_input_fields
ClickTrainModel(target, fits) ==
    /\ \E rounded \in SUBSET RoundedMeans(
                          IF target = "" \/ data_table = <<>> THEN <<>>
                          ELSE DropNaSubset(data_table,
                                            {target} \cup Range(prediction_features)),
                          Range(prediction_features)) :
       \E out \in {train_model(1, data_table, target, prediction_features,
                                fits, rounded)} :
          /\ trained_model_store' = out.model
          /\ feature_info_store' = out.feature_info
          /\ model_performance_store' = out.metrics
          /\ training_status' = out.status
          /\ predict_button_file_disabled' = out.disabled
    /\ pending' = Send(pending, ManualFieldsRequested("trained-model-store.data"))
    /\ req' = Request("train-model-button", {}, "None")
    /\ recorded' = Some(TrainingInputs(target, prediction_features))
    /\ UNCHANGED <<data_table, outputs, raised, downloaded, stale, encoding,
                   tests, prediction_upload_status, prediction_df_store,
                   prediction_results, prediction_features, manual_inputs>>

\* process_prediction_file.  contents is None without an upload; otherwise
\* it tells whether the file is of a supported format and readable, and
\* holds the frame read from it.
process_prediction_file(contents, required_features) ==
    IF contents = None \/ required_features = {}
    THEN [status |-> "upload_a_file", data |-> None]
    ELSE IF ~contents[1].readable
    THEN [status |-> "error", data |-> None]
    ELSE IF ~(required_features \subseteq ColumnsOf(contents[1].df))
    THEN [status |-> "missing_features", data |-> None]
    ELSE [status |-> "processed",
          data |-> Some(Project(contents[1].df, required_features))]

\* "Preprocess input data similarly to training": X_processed.  A
\* standardized value (x - mean) / std is kept as the pair of x - mean and
\* std_sq; an indicator is 1 where the text of the cell is the category.
Preprocess(prediction_df, features, feature_info) ==
    LET Names(f) ==
            IF feature_info[f].type = "numeric" THEN {f}
            ELSE {DummyName(f, c) : c \in Range(feature_info[f].categories)}
        Value(x, f, name) ==
            IF feature_info[f].type = "numeric"
            THEN IF IsNull(x) THEN NULL
                 ELSE [t |-> "scaled", centered |-> RSub(x, feature_info[f].mean),
                       std_sq |-> feature_info[f].std_sq]
            ELSE IF \E c \in Range(feature_info[f].categories) :
                        name = DummyName(f, c) /\ x = c
                 THEN Num(1, 1) ELSE Num(0, 1)
    IN  [i \in 1..Len(prediction_df) |->
            [name \in UNION {Names(f) : f \in features} |->
                Value(prediction_df[i][CHOOSE f \in features : name \in Names(f)],
                      CHOOSE f \in features : name \in Names(f), name)]]

\* make_predictions.  manual_input is the row of the manual input fields
\* (<<>> when there is none), fits tells whether the classifier accepts
\* the frame it is fitted on.  kind names the returned message; rows is
\* prediction_df and inferred_on the frame the prediction is computed from.
make_predictions(button_id, manual_input, file_data, model_info, feature_info, fits) ==
    IF model_info = None \/ feature_info = None
    THEN [kind |-> "train_first"]
    ELSE IF button_id = "predict-button-manual" /\ manual_input = <<>>
    THEN [kind |-> "fill_all_fields"]
    ELSE IF button_id = "predict-button-file" /\ file_data \in {None, Some(<<>>)}
    THEN [kind |-> "upload_a_file"]
    ELSE IF button_id \notin {"predict-button-manual", "predict-button-file"}
    THEN [kind |-> ""]
    ELSE
    LET prediction_df ==
            IF button_id = "predict-button-manual"
            THEN manual_input ELSE file_data[1]
        features == Range(model_info[1].features)
        target == model_info[1].target
        \* "for feature in features": the loop returns at a feature that
        \* is not a column and raises at astype(float) of a text
        Stops(k) ==
            IF model_info[1].features[k] \notin ColumnsOf(prediction_df)
            THEN "missing_feature"
            ELSE IF /\ feature_info[1][model_info[1].features[k]].type = "numeric"
                    /\ \E i \in 1..Len(prediction_df) :
                          IsStr(prediction_df[i][model_info[1].features[k]])
            THEN "error"
            ELSE ""
        stopped == {k \in 1..Len(model_info[1].features) : Stops(k) # ""}
    IN  IF stopped # {}
        THEN [kind |-> Stops(CHOOSE k \in stopped : \A j \in stopped : k <= j)]
        ELSE IF button_id = "predict-button-file"
        THEN \* a new classifier is fitted on the columns of the file as
             \* they are, and predicts the rows it was fitted on
             IF \/ target \notin ColumnsOf(prediction_df)    \* df[target]
                \/ \E i \in 1..Len(prediction_df), f \in features :
                        IsStr(prediction_df[i][f])           \* fit(X, y)
                \/ ~fits
             THEN [kind |-> "error"]
             ELSE [kind |-> "completed",
                   rows |-> prediction_df,
                   inferred_on |-> Project(prediction_df, features)]
        ELSE \* inverse_mapping[0]: the keys of a stored mapping are texts
             IF model_info[1].target_info = "categorical"
             THEN [kind |-> "error"]
             ELSE [kind |-> "result",
                   rows |-> prediction_df,
                   inferred_on |->
                       Preprocess(prediction_df, features, feature_info[1])]

\* a file is dropped on the prediction upload; the required features are
\* those of the features dropdown
UploadPredictionFile(contents) ==
    /\ \E out \in {process_prediction_file(contents, Range(prediction_features))} :
          /\ prediction_upload_status' = out.status
          /\ prediction_df_store' = out.data
    /\ req' = Request("prediction-upload", {}, "None")
    /\ UNCHANGED <<data_table, outputs, raised, transit, stale, recorded,
                   encoding, tests, trained_model_store, feature_info_store,
                   model_performance_store, training_status,
                   predict_button_file_disabled, prediction_results,
                   prediction_features, manual_inputs>>

\* "Predict" or "Predict from File"; a click on a disabled button does
\* nothing.  manual_input is the row typed into the manual fields.
ClickPredict(button_id, manual_input, fits) ==
    IF \/ button_id = "predict-button-file" /\ predict_button_file_disabled
       \/ button_id = "predict-button-manual" /\ manual_inputs.disabled
    THEN Ignored
    ELSE /\ prediction_results' =
                make_predictions(button_id, manual_input, prediction_df_store,
                                 trained_model_store, feature_info_store, fits)
         /\ req' = Request(button_id, {}, "None")
         /\ UNCHANGED <<data_table, outputs, raised, transit, stale, recorded,
                        encoding, tests, trained_model_store, feature_info_store,
                        model_performance_store, training_status,
                        predict_button_file_disabled,
                        prediction_upload_status, prediction_df_store,
                        prediction_features, manual_inputs>>

\* ---- the inputs of the prediction page
MaxTrainRows == 11

\* n rows; a is missing in the first na rows, b in the last nb rows
TrainingTable(n, na, nb) ==
    [i \in 1..n |-> Row(IF i <= na THEN NULL ELSE I(i),
                        IF i > n - nb THEN NULL ELSE I(8))]

\* ten rows whose a is 0.1, a value no double holds exactly, and b = 1..10
TenthsTable == [i \in 1..MinRowsToTrain |-> Row(Num(1, 10), I(i))]

TrainingTables ==
    {TrainingTable(t[1], t[2], t[3]) :
        t \in {u \in ((MinRowsToTrain - 1)..MaxTrainRows) \X (0..1) \X (0..1) :
                  u[3] <= u[2]}}
    \cup {TenthsTable}

NextTraining ==
    \/ \E ds \in TrainingTables : FirstUpload(ds)
    \/ UploadNothing
    \/ AnswerCleaning
    \/ \E features \in FeatureLists : SelectFeatures(features)
    \/ AnswerManualInputFields
    \/ \E target \in {""} \cup Cols, fits \in BOOLEAN :
          ClickTrainModel(target, fits)

SpecTraining == Init /\ [][NextTraining]_vars

\* Training and prediction.  FixtureLabels: ten rows with a text column,
\* a = x, y, x, y, ...; b = 1..10.  PredictionRows: the rows to predict,
\* with numbers, a missing cell, a text.
NextPrediction ==
    LET FixtureLabels == [i \in 1..MinRowsToTrain |-> Row(Str(2 - (i % 2)), I(i))]
        PredictionRows == {Row(a, b) : a \in {I(1), Str(1), NULL}, b \in {I(8)}}
        PredictionFiles ==
            {<<r>> : r \in PredictionRows} \cup {<<Row(I(1), I(8)), Row(I(12), I(3))>>}
    IN  \/ \E ds \in {TrainingTable(MaxTrainRows, 0, 0), FixtureLabels} :
              FirstUpload(ds)
        \/ \E features \in {<<"a">>, <<"b", "a">>} : SelectFeatures(features)
        \/ AnswerManualInputFields
        \/ \E target \in Cols, fits \in BOOLEAN : ClickTrainModel(target, fits)
        \/ \E df \in PredictionFiles, readable \in BOOLEAN :
              UploadPredictionFile(Some([readable |-> readable, df |-> df]))
        \/ \E fits \in BOOLEAN : ClickPredict("predict-button-file", <<>>, fits)
        \/ \E r \in PredictionRows :
              ClickPredict("predict-button-manual",
                           IF manual_inputs.disabled THEN <<>>
                           ELSE Project(<<r>>, Range(manual_inputs.fields)),
                           TRUE)

SpecPrediction == Init /\ [][NextPrediction]_vars

\* ------------------------------------------------- the statistical tests
MaxTestRows == 3

\* the rows of df[[x_axis, y_axis]].replace([inf, -inf], nan).dropna(); a
\* table that came through the browser holds null for an infinite value
ValidRows(df, x_axis, y_axis) ==
    SelectIdx(df, {i \in 1..Len(df) :
                     ~IsNull(df[i][x_axis]) /\ ~IsNull(df[i][y_axis])})

\* the four Outputs of perform_test but the figure: the message, the
\* number of records and the number of columns of the result table
TestReturn(result, data, columns) ==
    [result |-> result, table |-> [data |-> data, columns |-> columns]]

\* The callback.  computes: scipy and numpy accept the valid rows (they
\* raise otherwise, and "except Exception" returns the error message).
perform_test(n_clicks, test_type, x_axis, y_axis, data, computes) ==
    IF n_clicks = 0 \/ test_type = "" \/ x_axis = "" \/ data = <<>>
    THEN TestReturn("select", 0, 0)
    ELSE IF test_type \notin {"chi2", "pearson", "spearman"}
    THEN TestReturn("invalid_test", 0, 0)
    ELSE IF y_axis = ""
    THEN TestReturn("select_y", 0, 0)
    ELSE IF test_type = "chi2"
    THEN \* crosstab counts the rows with a value in both columns;
         \* chi2_contingency raises on an empty table
         IF ValidRows(data, x_axis, y_axis) = <<>> \/ ~computes
         THEN TestReturn("error", 0, 0)
         ELSE TestReturn("result",
                  2 * Cardinality(Range(Column(ValidRows(data, x_axis, y_axis), x_axis))),
                  1 + Cardinality(Range(Column(ValidRows(data, x_axis, y_axis), y_axis))))
    ELSE IF \/ ~is_numeric_dtype(Column(data, x_axis))
            \/ ~is_numeric_dtype(Column(data, y_axis))
    THEN TestReturn("must_be_numeric", 0, 0)
    ELSE IF Len(ValidRows(data, x_axis, y_axis)) < 2
    THEN TestReturn("not_enough", 0, 0)
    ELSE IF ~computes
    THEN TestReturn("error", 0, 0)
    ELSE TestReturn("result", 0, 0)

\* the "Perform Test" click; the variable dropdowns offer the columns of
\* the uploaded table
ClickPerformTest(test_type, x_axis, y_axis, computes) ==
    /\ data_table = <<>> => x_axis = "" /\ y_axis = ""
    /\ \E out \in {perform_test(1, test_type, x_axis, y_axis, data_table, computes)} :
          /\ test_result' = out.result
          /\ test_table' = out.table
    /\ pending' = Drop(pending, "perform_test")
    /\ req' = Request("perform-test", {}, "None")
    /\ recorded' = Some([test_type |-> test_type, x_axis |-> x_axis,
                         y_axis |-> y_axis])
    /\ UNCHANGED <<data_table, outputs, raised, downloaded, stale, encoding,
                   training, series, detected_type, regression_inputs,
                   regression_error>>

\* The run of perform_test requested by a new data-table.data is answered.
\* update_test_dropdowns has answered before it and has set both variable
\* dropdowns to None, so the run leaves at its first test.
AnswerPerformTest ==
    \E r \in {q \in pending : q.callback = "perform_test"} :
       \E out \in {perform_test(1, "", "", "", data_table, TRUE)} :
          /\ test_result' = out.result
          /\ test_table' = out.table
          /\ pending' = pending \ {r}
          /\ UNCHANGED <<data_table, outputs, raised, downloaded, req, stale,
                         recorded, encoding, training, series, detected_type,
                         regression_inputs, regression_error>>

\* Tables of up to MaxTestRows rows: a number, a text or nothing in a, a
\* number or nothing in b.
NextTests ==
    LET TestRows == {Row(a, b) : a \in {NULL, I(1), Str(1)}, b \in {NULL, I(8)}}
        TestVariables == {""} \cup Cols
    IN  \/ \E n \in 1..MaxTestRows : \E ds \in [1..n -> TestRows] : FirstUpload(ds)
        \/ AnswerPerformTest
        \/ \E test_type \in {"", "chi2", "pearson", "spearman", "anova"},
              x_axis \in TestVariables, y_axis \in TestVariables,
              computes \in BOOLEAN :
              ClickPerformTest(test_type, x_axis, y_axis, computes)

SpecTests == Init /\ [][NextTests]_vars

\* ------------------------------------------------- the regression page
\* the Outputs of perform_regression but the figure: kind names what is
\* shown (the equation and the metrics of a fit, or one of the messages of
\* regression-error), is_open is regression-error.is_open
RegressionReturn(kind, is_open) == [kind |-> kind, is_open |-> is_open]

\* The callback.  computes: statsmodels accepts the valid rows (it raises
\* otherwise, and "except Exception" returns the error message).  A column
\* that is not in the table raises KeyError; with the same column in both
\* dropdowns df[x_var] is a frame of two columns and OLS refuses the shapes.
perform_regression(n_clicks, x_var, y_var, data, computes) ==
    IF n_clicks = 0 \/ x_var = "" \/ y_var = "" \/ data = <<>>
    THEN RegressionReturn("", FALSE)
    ELSE IF ~({x_var, y_var} \subseteq ColumnsOf(data))
    THEN RegressionReturn("error", TRUE)
    ELSE IF \/ ~is_numeric_dtype(Column(data, x_var))
            \/ ~is_numeric_dtype(Column(data, y_var))
    THEN RegressionReturn("must_be_numeric", TRUE)
    ELSE IF Len(ValidRows(data, x_var, y_var)) < 2
    THEN RegressionReturn("not_enough", TRUE)
    ELSE IF x_var = y_var \/ ~computes
    THEN RegressionReturn("error", TRUE)
    ELSE RegressionReturn("fitted", FALSE)

\* update_regression_dropdowns offers the numeric columns
RegressionColumns(df) ==
    {""} \cup (IF df = <<>> THEN {}
               ELSE {c \in ColumnsOf(df) : is_numeric_dtype(Column(df, c))})

\* perform_regression runs on new values of its Inputs and writes its Outputs
RunRegression(inputs, computes) ==
    /\ regression_inputs' = inputs
    /\ regression_error' = perform_regression(inputs.n_clicks, inputs.x_var,
                                              inputs.y_var, data_table, computes)
    /\ pending' = Drop(pending, "perform_regression")
    /\ UNCHANGED <<data_table, outputs, raised, downloaded, stale, recorded,
                   encoding, training, test_result, test_table, series,
                   detected_type>>

\* "Calculate Regression" is clicked (the count of clicks is kept up to 1)
ClickCalculateRegression(computes) ==
    /\ RunRegression([regression_inputs EXCEPT !.n_clicks = 1], computes)
    /\ req' = Request("calculate-regression", {}, "None")

\* one of the two regression dropdowns ("x" or "y") is set
SelectRegressionVariable(axis, value, computes) ==
    /\ value \in RegressionColumns(data_table)
    /\ RunRegression(IF axis = "x" THEN [regression_inputs EXCEPT !.x_var = value]
                     ELSE [regression_inputs EXCEPT !.y_var = value],
                     computes)
    /\ req' = Request("regression-" \o axis \o "-dropdown", {}, "None")

\* The run of perform_regression requested by a new data-table.data is
\* answered: the dropdowns keep their values over an upload.
AnswerRegression(computes) ==
    \E r \in {q \in pending : q.callback = "perform_regression"} :
       /\ regression_error' = perform_regression(regression_inputs.n_clicks,
                                                 regression_inputs.x_var,
                                                 regression_inputs.y_var,
                                                 data_table, computes)
       /\ pending' = pending \ {r}
       /\ UNCHANGED <<data_table, outputs, raised, downloaded, req, stale,
                      recorded, encoding, training, test_result, test_table,
                      series, detected_type, regression_inputs>>

\* ------------------------------------------------- every page on one table
\* a row of three columns
Row3(a, b, c) == [k \in {"a", "b", "c"} |-> IF k = "a" THEN a ELSE IF k = "b" THEN b ELSE c]

\* twelve rows: a = [1,1,2,...,9,None,100], b = 0,0,0,1,2,0,1,2,...,
\* c = x,x,y,x,y,...; the second row repeats the first
FixturePages ==
    [i \in 1..12 |->
        IF i <= 2 THEN Row3(I(1), I(0), Str(1))
        ELSE Row3(IF i = 11 THEN NULL ELSE IF i = 12 THEN I(100) ELSE I(i - 1),
                  I(i % 3), Str(1 + (i % 2)))]

\* a row typed into the manual fields
ManualRow == Row3(I(3), I(1), Str(1))

\* the upload of the fixture table, then cleaning (imputation, removal of
\* duplicates), encoding, a test, a regression, a training and predictions
\* from the manual fields, in any order
NextPages ==
    \/ Upload(FixturePages)
    \/ AnswerCleaning
    \/ AnswerPerformTest
    \/ AnswerRegression(TRUE)
    \/ ClickRemoveDuplicates
    \/ ClickApplyImputation({"a", "b"}, "mean")
    \/ ClickPerformTest("pearson", "a", "b", TRUE)
    \/ \E axis \in {"x", "y"} :
          SelectRegressionVariable(axis, IF axis = "x" THEN "a" ELSE "b", TRUE)
    \/ ClickCalculateRegression(TRUE)
    \/ ClickApplyEncoding("c", "onehot", <<>>, TRUE, TRUE)
    \/ SelectFeatures(<<"a">>)
    \/ AnswerManualInputFields
    \/ ClickTrainModel("b", TRUE)
    \/ ClickPredict("predict-button-manual",
                    IF manual_inputs.disabled THEN <<>>
                    ELSE Project(<<ManualRow>>, Range(manual_inputs.fields)),
                    TRUE)

SpecPages == Init /\ [][NextPages]_vars

\* cleaning and a test on the fixture tables
NextDownstream ==
    \/ \E ds \in Fixtures \cup {FixtureGaps} : Upload(ds)
    \/ UploadNothing
    \/ AnswerCleaning
    \/ AnswerPerformTest
    \/ ClickFindDuplicates
    \/ ClickRemoveDuplicates
    \/ ClickDetectOutliers({"a"}, "iqr", NULL)
    \/ \E oh \in {"remove", "mean"} : ClickHandleOutliers(oh)
    \/ \E sc \in {{}, {"a", "b"}} : ClickApplyImputation(sc, "mean")
    \/ ClickPerformTest("pearson", "a", "b", TRUE)

SpecDownstream == Init /\ [][NextDownstream]_vars

\* ------------------------------------------------- data type detection
MaxSeriesLen == 4

\* the length of a column that holds texts of numbers
MaxTextLen == 2

\* "sample(min(100, ...))": the helpers look at 100 values at most
SampleSize == 100

\* A series is its dtype and its values; the values of a bool column are
\* written 0 and 1.  The helpers answer "True", "False" or "raise" (the
\* exception leaves the function).
\* series.dropna()
NonNull(s) == SelectSeq(s.values, LAMBDA c : ~IsNull(c))

\* Series.sample(n) draws n of the values v without replacement.  A draw
\* is written as the set of the distinct values it holds: a set of at most
\* n values that occur at least n times together.  Where n is more than
\* the number of values the call raises, written None.
Samples(v, n) ==
    IF n > Len(v) THEN {None}
    ELSE {Some(drawn) : drawn \in
            {held \in SUBSET Range(v) :
                /\ Cardinality(held) <= n
                /\ n <= Cardinality({i \in 1..Len(v) : v[i] \in held})}}

\* non_null.sample(min(100, len(non_null)))
DatetimeSamples(s) ==
    Samples(NonNull(s), IF Len(NonNull(s)) < SampleSize THEN Len(NonNull(s))
                        ELSE SampleSize)

\* series.dropna().sample(min(100, len(series))): it raises where the
\* non-null values are fewer than the sample asked for
SeriesSamples(s) ==
    Samples(NonNull(s), IF Len(s.values) < SampleSize THEN Len(s.values)
                        ELSE SampleSize)

\* pd.to_datetime reads numbers as nanoseconds and refuses booleans; the
\* texts x, y, z, True and False are not dates in any of the formats.  The
\* text of a number is a string: to_datetime refuses it as "not likely a
\* datetime" where the number is below 1000 and its text does not begin
\* with 0, and no format matches it; what the parser makes of the other
\* texts of numbers ("2020", "0.5") depends on the installed parser and is
\* the input reads_as_date.
is_possible_datetime(s, sample, reads_as_date) ==
    LET NotDate(x) ==
            \/ IsStr(x)
            \/ x.t = "bool"
            \/ IsText(x) /\ (x.n < 0 \/ (x.n >= x.d /\ x.n < 1000 * x.d))
    IN  IF s.dtype = "datetime64[ns]" THEN "True"
        ELSE IF NonNull(s) = <<>> THEN "False"
        ELSE IF s.dtype = "bool" THEN "False"
        ELSE IF \E x \in sample[1] : NotDate(x) THEN "False"
        ELSE IF \E x \in sample[1] : IsText(x)
        THEN (IF reads_as_date THEN "True" ELSE "False")
        ELSE "True"

\* is_numeric_dtype accepts the float, integer and bool dtypes; pd.to_numeric
\* raises on x, y, z and reads the text of a number
is_possible_numeric(s, sample) ==
    IF s.dtype \in {"float64", "int64", "bool"} THEN "True"
    ELSE IF sample = None THEN "raise"
    ELSE IF sample[1] = {} THEN "False"
    ELSE IF \A x \in sample[1] : ~IsStr(x) THEN "True"
    ELSE "False"

\* of the texts x, y, z only y is one of the boolean words, and of the
\* texts of numbers only "1" and "0"; the .str accessor refuses a sample
\* without a string, and a number among strings is passed over
is_possible_boolean(s, sample) ==
    IF s.dtype = "bool" THEN "True"
    ELSE IF sample = None THEN "raise"
    ELSE IF sample[1] = {} THEN "False"
    ELSE IF \A x \in sample[1] : ~IsStr(x) /\ ~IsText(x) THEN "False"
    ELSE IF \A x \in sample[1] :
               /\ IsStr(x) => x = Str(2)
               /\ IsText(x) => x \in {Text(I(1)), Text(I(0))}
    THEN "True"
    ELSE "False"

\* detect_data_type.  strict: is_string_dtype looks at the elements of an
\* object column (it accepts every object column otherwise).  Each helper
\* draws its own sample.
detect_data_type(s, strict, datetime_sample, numeric_sample, boolean_sample, reads_as_date) ==
    IF is_possible_datetime(s, datetime_sample, reads_as_date) = "True"
    THEN "datetime"
    ELSE IF is_possible_numeric(s, numeric_sample) = "raise" THEN "raise"
    ELSE IF is_possible_numeric(s, numeric_sample) = "True" THEN "numeric"
    ELSE IF is_possible_boolean(s, boolean_sample) = "raise" THEN "raise"
    ELSE IF is_possible_boolean(s, boolean_sample) = "True" THEN "boolean"
    ELSE IF /\ s.dtype = "object"
            /\ strict => /\ s.values # <<>>
                         /\ \A i \in 1..Len(s.values) :
                               IsStr(s.values[i]) \/ IsText(s.values[i])
    THEN IF /\ Cardinality(Range(NonNull(s))) < 50
            /\ 2 * Cardinality(Range(NonNull(s))) < Len(s.values)
         THEN "categorical" ELSE "text"
    ELSE s.dtype

\* the type of a column is detected
DetectType(s, strict) ==
    /\ series' = Some(s)
    /\ \E datetime_sample \in DatetimeSamples(s),
          numeric_sample \in SeriesSamples(s),
          boolean_sample \in SeriesSamples(s),
          reads_as_date \in BOOLEAN :
          detected_type' = detect_data_type(s, strict, datetime_sample,
                                            numeric_sample, boolean_sample,
                                            reads_as_date)
    /\ UNCHANGED <<data_table, outputs, raised, transit, req, stale, recorded,
                   encoding, training, test_result, test_table,
                   regression_inputs, regression_error>>

\* more values than a sample holds: a hundred y and one x; a hundred y and
\* a missing value
FixtureLong == [i \in 1..(SampleSize + 1) |-> IF i = 1 THEN Str(1) ELSE Str(2)]
FixtureLongGap == [i \in 1..(SampleSize + 1) |-> IF i = 1 THEN NULL ELSE Str(2)]

\* Columns of up to MaxSeriesLen values: numbers and missing values as
\* float64, texts and missing values as object, texts of numbers beside a
\* text as object, whole numbers as int64 and truth values as bool; and the
\* two long columns.
NextTypes ==
    \/ \E n \in 0..MaxSeriesLen, strict \in BOOLEAN :
          \/ \E v \in [1..n -> {NULL, I(1), I(8)}] :
                DetectType([values |-> v, dtype |-> "float64"], strict)
          \/ \E v \in [1..n -> {NULL, Str(1), Str(2)}] :
                DetectType([values |-> v, dtype |-> "object"], strict)
          \/ \E v \in [1..n -> {I(1), I(8)}] :
                DetectType([values |-> v, dtype |-> "int64"], strict)
          \/ \E v \in [1..n -> {I(0), I(1)}] :
                DetectType([values |-> v, dtype |-> "bool"], strict)
    \/ \E n \in 0..MaxTextLen, strict \in BOOLEAN :
          \E v \in [1..n -> {Str(2), Text(I(1)), Text(I(8)), Text(I(2020))}] :
             DetectType([values |-> v, dtype |-> "object"], strict)
    \/ \E v \in {FixtureLong, FixtureLongGap}, strict \in BOOLEAN :
          DetectType([values |-> v, dtype |-> "object"], strict)

SpecTypes == Init /\ [][NextTypes]_vars

\* ------------------------------------------------------------------ claims
HandleTrig == "handle-outliers-button.n_clicks"
DetectTrig == "detect-outliers-button.n_clicks"
RemoveTrig == "remove-duplicates-button.n_clicks"
ImputeTrig == "apply-imputation-button.n_clicks"

Report == outliers_store[1]

FlaggedIn(store, c) ==
    IF store = None THEN {}
    ELSE IF c \notin DOMAIN store[1].outliers_dict THEN {}
    ELSE Range(store[1].outliers_dict[c].indices)

\* C1: once rows have been removed (duplicates or outliers), the handle
\* button stays disabled and a handle-outliers request changes no row and no
\* cell of the cleaned table, until outlier detection has run again.
C1_StaleReportNotApplied ==
    /\ [](stale => handle_disabled)
    /\ [][(stale /\ \E oh \in HandlingMethods : ClickHandleOutliers(oh))
            => imputed_table' = imputed_table]_vars

\* duplicates were just removed while a report computed before is still stored
C1_Witness ==
    /\ stale
    /\ req.trig = RemoveTrig
    /\ outliers_store # None
    /\ handle_disabled
    /\ Len(imputed_table) < Len(data_table)

\* C2: after a cleaning action has been applied, a statistical test reads
\* the cleaned table: its answer is the one computed from imputed-table.
C2_EnginesReadCleaned ==
    [][(/\ req.trig \in {ImputeTrig, HandleTrig, RemoveTrig}
        /\ ~raised
        /\ imputed_table # <<>>
        /\ req'.trig = "perform-test")
       => test_result' = perform_test(1, recorded'[1].test_type,
                                      recorded'[1].x_axis, recorded'[1].y_axis,
                                      imputed_table, TRUE).result]_vars

C4_NoExceptionEscapes == ~raised

\* C5: after imputation, every cell that held a value in the dataset holds
\* the same value in the imputed table.
C5_ImputationKeepsPresentCells ==
    (req.trig = ImputeTrig /\ ~raised /\ data_table # <<>>)
    => /\ Len(imputed_table) = Len(data_table)
       /\ \A i \in 1..Len(data_table), c \in Cols :
             IsNum(data_table[i][c]) => imputed_table[i][c] = data_table[i][c]

\* C6: a replace-with-median or replace-with-mean request that is applied
\* removes no row and changes only the cells (row, column) that the report
\* lists for that column.
C6_ReplaceOnlyFlaggedCells ==
    [][(/\ ~handle_disabled
        /\ outliers_store # None
        /\ req'.trig = HandleTrig
        /\ req'.handling \in {"median", "mean"}
        /\ ~raised')
       => /\ Len(imputed_table') = Len(data_table)
          /\ \A i \in 1..Len(data_table), c \in Cols :
                imputed_table'[i][c] # data_table[i][c]
                => (i - 1) \in FlaggedIn(outliers_store, c)]_vars

\* a row was replaced in one column and kept its value in the other
C6_Witness ==
    /\ req.trig = HandleTrig
    /\ req.handling \in {"median", "mean"}
    /\ ~raised
    /\ Len(imputed_table) = Len(data_table)
    /\ \E i \in 1..Len(data_table) :
          /\ imputed_table[i]["a"] # data_table[i]["a"]
          /\ imputed_table[i]["b"] = data_table[i]["b"]
    /\ \E j \in 1..Len(data_table) : imputed_table[j]["b"] # data_table[j]["b"]

\* C7: the remove policy, once applied, yields the dataset without the rows
\* whose label is in the report's outlier_indices; the other rows keep
\* values and order.
C7_RemoveDropsUnionRows ==
    [][(/\ ~handle_disabled
        /\ outliers_store # None
        /\ req'.trig = HandleTrig
        /\ req'.handling = "remove"
        /\ ~raised')
       => LET kept == SetToSortedSeq({i \in 1..Len(data_table) :
                          (i - 1) \notin Report.outlier_indices})
          IN  /\ Len(imputed_table') = Len(kept)
              /\ \A k \in 1..Len(kept) : imputed_table'[k] = data_table[kept[k]]]_vars

\* some rows were removed and some remain
C7_Witness ==
    /\ req.trig = HandleTrig
    /\ req.handling = "remove"
    /\ ~raised
    /\ Len(imputed_table) > 0
    /\ Len(imputed_table) < Len(data_table)
    /\ imputed_table[1] # data_table[1]

\* C8: IQR detection with threshold k (1.5 when none is given) flags, in a
\* numeric column with at least 2 values, exactly the rows strictly outside
\* [Q1 - k*IQR, Q3 + k*IQR]; in [1,2,3,4,100] with k = 1.5 only the row of 100.
C8_IqrRule ==
    [][\A di \in DetectInputs :
         (di[2] = "iqr" /\ data_table # <<>>
            /\ ClickDetectOutliers(di[1], di[2], di[3]))
         => LET k == IF IsNull(di[3]) THEN Num(3, 2) ELSE di[3]
                IqrRule(c) ==
                    LET v == DropNa(Column(data_table, c))
                        q1 == Quantile(v, 1, 4)
                        q3 == Quantile(v, 3, 4)
                        lo == RSub(q1, RMul(k, RSub(q3, q1)))
                        hi == RAdd(q3, RMul(k, RSub(q3, q1)))
                    IN  {i - 1 : i \in {j \in 1..Len(data_table) :
                            /\ IsNum(data_table[j][c])
                            /\ (RLt(data_table[j][c], lo) \/ RLt(hi, data_table[j][c]))}}
            IN  /\ \A c \in di[1] :
                     Processed(data_table, c)
                     => FlaggedIn(outliers_store', c) = IqrRule(c)
                /\ (data_table = FixtureIqr /\ "a" \in di[1] /\ IsNull(di[3]))
                     => FlaggedIn(outliers_store', "a") = {4}]_vars

\* the non-null values of the series are numbers, all the same
AllEqual(s) ==
    /\ \A i \in 1..Len(s) : ~IsStr(s[i])
    /\ \A i, j \in 1..Len(s) : (IsNum(s[i]) /\ IsNum(s[j])) => s[i] = s[j]

\* C9: a detection flags no row in a selected numeric column whose non-null
\* values are all equal, whatever the method and the threshold.
C9_AllEqualNeverFlagged ==
    (req.trig = DetectTrig /\ ~raised /\ data_table # <<>>)
    => \A c \in recorded[1].outlier_cols :
          AllEqual(Column(data_table, c)) => FlaggedIn(outliers_store, c) = {}

\* C10: in the report a detection stores, outlier_indices is the union over
\* the selected columns of the rows flagged in each, and outliers_dict has,
\* for every column with a flagged row, exactly those rows.
C10_ReportIsUnion ==
    (req.trig = DetectTrig /\ req.cols # {} /\ outliers_store # None)
    => \E rounded \in SUBSET Roundings(data_table, req.cols, Report.method,
                                       Report.threshold) :
       LET flagged(c) ==
               IF Processed(data_table, c)
               THEN OutlierRows(data_table, c, Report.method, Report.threshold,
                                rounded)
               ELSE {}
       IN  /\ Report.outlier_indices = UNION {flagged(c) : c \in req.cols}
           /\ DOMAIN Report.outliers_dict = {c \in req.cols : flagged(c) # {}}
           /\ \A c \in DOMAIN Report.outliers_dict :
                 /\ Range(Report.outliers_dict[c].indices) = flagged(c)
                 /\ Report.outliers_dict[c].count = Cardinality(flagged(c))

\* two columns are flagged in different rows
C10_Witness ==
    /\ req.trig = DetectTrig
    /\ outliers_store # None
    /\ DOMAIN Report.outliers_dict = {"a", "b"}
    /\ FlaggedIn(outliers_store, "a") # FlaggedIn(outliers_store, "b")
    /\ Cardinality(Report.outlier_indices) > Cardinality(FlaggedIn(outliers_store, "a"))

\* the selector values of the last recorded event
Recorded == recorded[1]

\* the column holds a cell that is neither a number nor missing, or no
\* number at all
NonNumeric(df, c) ==
    \/ \E i \in 1..Len(df) : IsStr(df[i][c])
    \/ \A i \in 1..Len(df) : IsNull(df[i][c])

NonNullCount(df, c) == Cardinality({i \in 1..Len(df) : ~IsNull(df[i][c])})

\* C11: a detection with the IQR or the Z-score method does not fail; a
\* selected column that is not numeric or has at most one non-null value
\* contributes no flagged row, and every other selected column contributes
\* the rows its rule flags.
C11_SkippedColumnsContributeNothing ==
    (/\ req.trig = DetectTrig
     /\ data_table # <<>>
     /\ Recorded.outlier_method \in {"iqr", "zscore"})
    => /\ ~raised
       /\ \A c \in Recorded.outlier_cols :
             IF NonNumeric(data_table, c) \/ NonNullCount(data_table, c) <= 1
             THEN /\ FlaggedIn(outliers_store, c) = {}
                  /\ outliers_store # None => c \notin DOMAIN Report.outliers_dict
             ELSE \E rounded \in SUBSET Roundings(data_table, {c},
                                      Recorded.outlier_method,
                                      Recorded.outlier_threshold) :
                     FlaggedIn(outliers_store, c)
                       = OutlierRows(data_table, c, Recorded.outlier_method,
                                     Recorded.outlier_threshold, rounded)

\* a text column and a numeric column with a flagged row are selected
\* together
C11_Witness ==
    /\ req.trig = DetectTrig
    /\ ~raised
    /\ Recorded.outlier_cols = {"a", "b"}
    /\ \E i \in 1..Len(data_table) : IsStr(data_table[i]["a"])
    /\ outliers_store # None
    /\ "a" \notin DOMAIN Report.outliers_dict
    /\ FlaggedIn(outliers_store, "b") # {}

\* the positions of the rows of df that no earlier row equals
FirstOccurrences(df) ==
    {i \in 1..Len(df) : ~\E j \in 1..Len(df) : j < i /\ df[j] = df[i]}

\* C14: removing duplicates leaves, in the original order, the first
\* occurrence of every distinct row of the uploaded table and no other row.
C14_FirstOccurrencesKept ==
    (req.trig = RemoveTrig /\ data_table # <<>> /\ ~raised)
    => /\ Len(imputed_table) = Cardinality(FirstOccurrences(data_table))
       /\ \A k \in 1..Len(imputed_table) :
             \E i \in FirstOccurrences(data_table) :
                /\ Cardinality({j \in FirstOccurrences(data_table) : j < i}) = k - 1
                /\ imputed_table[k] = data_table[i]

\* two later copies of a row are dropped, one of them after rows that are
\* kept
C14_Witness ==
    /\ req.trig = RemoveTrig
    /\ ~raised
    /\ Len(data_table) - Len(imputed_table) = 2
    /\ Len(data_table) \notin FirstOccurrences(data_table)
    /\ Len(data_table) - 1 \in FirstOccurrences(data_table)

\* the imputation whose downloaded result is the uploaded table
Source == Recorded.source[1]

\* a mean imputation is applied to the upload of the result of a mean
\* imputation of the same columns
MeanTwice ==
    /\ req.trig = ImputeTrig
    /\ Recorded.method = "mean"
    /\ Recorded.source # None
    /\ Source.method = "mean"
    /\ Source.selected_columns = Recorded.selected_columns

\* a mean imputation has just been answered
MeanImputed ==
    /\ req.trig = ImputeTrig
    /\ ~raised
    /\ data_table # <<>>
    /\ Recorded.method = "mean"

\* C13: a mean imputation of the columns of its own result changes no
\* cell.  The table a mean imputation shows is left as it is by the mean
\* imputation of the same columns, however the doubles round; and where the
\* shown table is downloaded, the file uploaded and the same columns imputed
\* again, the table shown then is the uploaded one, cell by cell.
C13_MeanImputationIdempotent ==
    /\ MeanImputed
       => \A rounded \in SUBSET ImputeRoundings(imputed_table,
                                   Recorded.selected_columns, "mean") :
             ApplyImputation(imputed_table, Defaults(imputed_table, None, None),
                             Recorded.selected_columns, "mean", rounded).data
               = imputed_table
    /\ MeanTwice
       => /\ data_table = read_csv(to_csv(Source.result))
          /\ imputed_table = data_table

\* the first imputation filled two cells of a selected column, its result
\* came back as the uploaded table and the second imputation has run on it
C13_Witness ==
    /\ MeanTwice
    /\ ~raised
    /\ data_table # Source.table
    /\ \E c \in Recorded.selected_columns :
          Cardinality({i \in 1..Len(Source.table) :
                          /\ IsNull(Source.table[i][c])
                          /\ IsNum(data_table[i][c])
                          /\ imputed_table[i][c] = data_table[i][c]}) = 2

\* the non-null values of column c that no other value outnumbers
MostFrequent(df, c) ==
    LET Count(x) == Cardinality({i \in 1..Len(df) : df[i][c] = x})
        present == {df[i][c] : i \in {j \in 1..Len(df) : ~IsNull(df[j][c])}}
    IN  {x \in present : \A y \in present : Count(y) <= Count(x)}

\* C12: after a mode imputation every missing cell of a selected column with
\* a non-null value, numeric or not, holds a most frequent non-null value of
\* the column, the present cells are kept, and a selected column without a
\* non-null value is left as it is.
C12_ModeFillsAnyColumn ==
    (/\ req.trig = ImputeTrig
     /\ data_table # <<>>
     /\ Recorded.method = "mode")
    => /\ Len(imputed_table) = Len(data_table)
       /\ \A c \in Recorded.selected_columns : \A i \in 1..Len(data_table) :
             IF IsNull(data_table[i][c]) /\ NonNullCount(data_table, c) > 0
             THEN imputed_table[i][c] \in MostFrequent(data_table, c)
             ELSE imputed_table[i][c] = data_table[i][c]

ApplyTrig == "encoding_apply_button"

\* the stored result of the encoding
Stored == encoding_data_store[1]

\* C15: the table an encoding stores holds every column of the uploaded
\* table with the uploaded values in every row, and besides them only the
\* derived columns.
C15_EncodingKeepsInputColumns ==
    (req.trig = ApplyTrig /\ encoding_data_store # None)
    => /\ Len(Stored.full_df) = Len(data_table)
       /\ ColumnsOf(Stored.full_df)
             = ColumnsOf(data_table) \cup DerivedColumns(Stored)
       /\ \A i \in 1..Len(data_table) : \A c \in ColumnsOf(data_table) :
             Stored.full_df[i][c] = data_table[i][c]

\* the source column holds a value that the chosen order leaves out
OmitsValue ==
    /\ req.trig = ApplyTrig
    /\ data_table # <<>>
    /\ Recorded.encoding_type = "ordinal"
    /\ Recorded.column # ""
    /\ \E v \in UniqueValues(data_table, Recorded.column) :
          StrText(v.n) \notin Range(Recorded.ordinal_values)

\* C16: an ordinal encoding whose order leaves out a value of the column
\* either ends with an error and stores nothing, or stores a derived column
\* that has a code in every row where the source cell is not missing.
C16_OrdinalOmissionHandled ==
    OmitsValue
    => \/ encoding_data_store = None /\ encoding_message.kind = "error"
       \/ /\ encoding_data_store # None
          /\ \A i \in 1..Len(data_table) :
                ~IsNull(data_table[i][Recorded.column])
                => IsNum(Stored.full_df[i][OrdinalName(Recorded.column)])

\* a one-hot encoding has just been stored
OneHotStored ==
    /\ req.trig = ApplyTrig
    /\ encoding_data_store # None
    /\ Stored.encoding_type = "onehot"

\* an indicator cell that is set (1 / True), that is not set (0 / False)
IsOne(c) == c \in {I(1), Bool(TRUE)}
IsZero(c) == c \in {I(0), Bool(FALSE)}

\* C17: a one-hot encoding appends to the columns of the uploaded table one
\* new column per distinct non-null value of the source column; each holds
\* 1 in the rows with that value and 0 in the others, so a row with a
\* non-null source cell has exactly one 1.
C17_OneHotIndicators ==
    OneHotStored
    => /\ Stored.new_columns \cap ColumnsOf(data_table) = {}
       /\ ColumnsOf(Stored.full_df)
             = ColumnsOf(data_table) \cup Stored.new_columns
       /\ Cardinality(Stored.new_columns)
             = Cardinality(UniqueValues(data_table, Stored.column_name))
       /\ \A v \in UniqueValues(data_table, Stored.column_name) :
             \E c \in Stored.new_columns : \A i \in 1..Len(data_table) :
                IF data_table[i][Stored.column_name] = v
                THEN IsOne(Stored.full_df[i][c])
                ELSE IsZero(Stored.full_df[i][c])
       /\ \A i \in 1..Len(data_table) :
             ~IsNull(data_table[i][Stored.column_name])
             => Cardinality({c \in Stored.new_columns :
                                IsOne(Stored.full_df[i][c])}) = 1

\* a label encoding has just been stored
LabelStored ==
    /\ req.trig = ApplyTrig
    /\ encoding_data_store # None
    /\ Stored.encoding_type = "label"

\* C18: a label encoding gives every row an integer code, different values
\* get different codes, and the reported mapping takes the code of a row
\* back to the value of its source cell.
C18_LabelCodesDecode ==
    LabelStored
    => /\ \A i \in 1..Len(data_table) :
             /\ IsNum(Stored.full_df[i][Stored.encoded_column])
             /\ Stored.full_df[i][Stored.encoded_column].d = 1
             /\ Stored.full_df[i][Stored.encoded_column].n \in DOMAIN Stored.mapping
             /\ Stored.mapping[Stored.full_df[i][Stored.encoded_column].n]
                   = data_table[i][Stored.column_name]
       /\ \A i, j \in 1..Len(data_table) :
             data_table[i][Stored.column_name] # data_table[j][Stored.column_name]
             => Stored.full_df[i][Stored.encoded_column]
                  # Stored.full_df[j][Stored.encoded_column]

\* three values, not in sorted order, and a missing cell are encoded
C18_Witness ==
    /\ LabelStored
    /\ Cardinality(DOMAIN Stored.mapping) = 4
    /\ data_table[1][Stored.column_name] = Str(3)
    /\ Stored.full_df[1][Stored.encoded_column] = I(2)

\* C19: flipping the show-only-encoded switch leaves the stored encoding
\* result as it is.
C19_ToggleKeepsStore ==
    [][encoding_toggle' # encoding_toggle
       => encoding_data_store' = encoding_data_store]_vars

TrainTrig == "train-model-button"

\* the rows of the uploaded table with a value in the target and in every
\* feature of the last training
RowsLeft ==
    {i \in 1..Len(data_table) :
        \A c \in {Recorded.target} \cup Range(Recorded.features) :
           ~IsNull(data_table[i][c])}

\* a training was asked for, on a table, with a target and features, and
\* fewer than 10 rows are left
TrainedOnTooFew ==
    /\ req.trig = TrainTrig
    /\ data_table # <<>>
    /\ Recorded.target # ""
    /\ Recorded.features # <<>>
    /\ Cardinality(RowsLeft) < 10

\* C20: a training with fewer than 10 rows left after the rows with a
\* missing target or feature are dropped shows the not-enough-data error,
\* leaves the model store and the feature store empty and the file
\* prediction button disabled, and no exception escapes.
C20_TooFewRowsRejected ==
    TrainedOnTooFew
    => /\ training_status = "not_enough"
       /\ trained_model_store = None
       /\ feature_info_store = None
       /\ model_performance_store = None
       /\ predict_button_file_disabled
       /\ ~raised

\* eleven uploaded rows, nine of them left
C20_Witness ==
    /\ TrainedOnTooFew
    /\ Len(data_table) = 11
    /\ Cardinality(RowsLeft) = 9
    /\ training_status = "not_enough"

\* the threshold the detection is asked to use: the supplied one, or the
\* default of the method when none is supplied
AskedThreshold ==
    IF IsNull(Recorded.outlier_threshold)
    THEN (IF Recorded.outlier_method = "zscore" THEN Num(3, 1) ELSE Num(3, 2))
    ELSE Recorded.outlier_threshold

\* the rows of column c strictly outside [Q1 - k*IQR, Q3 + k*IQR]
IqrOutside(df, c, k) ==
    LET v == DropNa(Column(df, c))
        q1 == Quantile(v, 1, 4)
        q3 == Quantile(v, 3, 4)
        lo == RSub(q1, RMul(k, RSub(q3, q1)))
        hi == RAdd(q3, RMul(k, RSub(q3, q1)))
    IN  {i - 1 : i \in {j \in 1..Len(df) :
            /\ IsNum(df[j][c])
            /\ (RLt(df[j][c], lo) \/ RLt(hi, df[j][c]))}}

\* the rows of column c that lie on Q1 - k*IQR or on Q3 + k*IQR
IqrOnBound(df, c, k) ==
    LET v == DropNa(Column(df, c))
        q1 == Quantile(v, 1, 4)
        q3 == Quantile(v, 3, 4)
        lo == RSub(q1, RMul(k, RSub(q3, q1)))
        hi == RAdd(q3, RMul(k, RSub(q3, q1)))
    IN  {i - 1 : i \in {j \in 1..Len(df) :
            IsNum(df[j][c]) /\ df[j][c] \in {lo, hi}}}

\* a detection with a method has just run on selected columns
Detected ==
    /\ req.trig = DetectTrig
    /\ data_table # <<>>
    /\ Recorded.outlier_cols # {}
    /\ Recorded.outlier_method \in {"iqr", "zscore"}

\* C24: a detection uses the supplied threshold, 0 included, and the
\* default (1.5 for IQR, 3 for Z-score) only when none is supplied: the
\* report it stores names that threshold, and an IQR detection flags the
\* rows outside the bounds taken with it (a row on a bound may go either
\* way where the bound is rounded).
C24_SuppliedThresholdUsed ==
    Detected
    => /\ outliers_store # None => Report.threshold = AskedThreshold
       /\ Recorded.outlier_method = "iqr"
          => \A c \in Recorded.outlier_cols :
                Processed(data_table, c)
                => /\ IqrOutside(data_table, c, AskedThreshold)
                        \subseteq FlaggedIn(outliers_store, c)
                   /\ FlaggedIn(outliers_store, c)
                        \subseteq IqrOutside(data_table, c, AskedThreshold)
                            \cup IqrOnBound(data_table, c, AskedThreshold)

FindTrig == "find-duplicates-button.n_clicks"

\* C25: an enabled handle-outliers button means that the last cleaning
\* event was a detection and that the store holds its non-empty report on
\* the uploaded table; an enabled remove-duplicates button means that the
\* last cleaning event was a search and that the store holds the duplicate
\* rows it found in the uploaded table.
C25_EnabledMeansFresh ==
    /\ ~handle_disabled
       => /\ req.trig = DetectTrig
          /\ req.cols # {}
          /\ outliers_store # None
          /\ Report.outlier_indices # {}
          /\ Report.outliers_dict
               = OutliersDict(data_table, req.cols, Report.method,
                              Report.threshold, {})
    /\ ~remove_disabled
       => /\ req.trig = FindTrig
          /\ duplicates_store # None
          /\ duplicates_store[1] # <<>>
          /\ duplicates_store[1]
               = SelectIdx(data_table,
                           {i \in 1..Len(data_table) :
                               \E j \in 1..Len(data_table) :
                                  j # i /\ data_table[j] = data_table[i]})

\* C26: once a handle-outliers request has been applied, with whichever
\* policy, the outlier store is empty and the handle button disabled, and
\* the callback run on a further handle request in that state returns the
\* uploaded table with no row removed and no cell replaced.
C26_HandledReportCleared ==
    (req.trig = HandleTrig /\ ~raised /\ data_table # <<>>)
    => /\ outliers_store = None
       /\ handle_disabled
       /\ \A oh \in HandlingMethods :
             \E out \in {handle_data_cleaning(data_table, {}, "None", ROWS_NONE,
                                               HandleTrig, duplicates_store,
                                               outliers_store, {}, "None", NULL, oh,
                                               {})} :
                /\ ~out.raised
                /\ out.data = data_table
                /\ out.handle_disabled
                /\ out.outliers_store = None

\* flagged cells were replaced by the mean and the report is gone
C26_Witness ==
    /\ req.trig = HandleTrig
    /\ ~raised
    /\ req.handling = "mean"
    /\ imputed_table # data_table
    /\ outliers_store = None

\* imputed is what one action alone makes of the table df
SingleAction(imputed, df, trig, duplicates_data, outliers_data, outlier_handling) ==
    IF trig = RemoveTrig /\ duplicates_data # None
    THEN imputed = drop_duplicates(df)
    ELSE IF trig = HandleTrig /\ outliers_data # None
    THEN imputed =
            IF outlier_handling = "remove"
            THEN DropRows(df, outliers_data[1].outlier_indices)
            ELSE ReplaceOutliers(df, outliers_data[1].outliers_dict, outlier_handling)
    ELSE IF trig = ImputeTrig
    THEN \/ imputed = df    \* no column selected, or nothing to fill
         \/ \E ii \in ImputeInputs :
               \E rounded \in SUBSET ImputeRoundings(df, ii[1], ii[2]) :
                  imputed = ApplyImputation(df, Defaults(df, None, None),
                                            ii[1], ii[2], rounded).data
    ELSE imputed = df

\* the step is a run of the cleaning callback: its request is gone
CleaningRan == pending' = Drop(pending, "handle_data_cleaning")

\* C27: the table a cleaning event shows is the event's own action applied
\* to the uploaded table: the rows removed, the cells replaced and the
\* cells filled by earlier events are back as they were uploaded.
C27_SingleActionOnUpload ==
    [][(CleaningRan /\ ~raised' /\ data_table' # <<>>)
       => SingleAction(imputed_table', data_table', req'.trig, duplicates_store,
                       outliers_store, req'.handling)]_vars

\* a search for duplicates run after a removal shows the removed rows again
C27_Witness ==
    /\ req.trig = FindTrig
    /\ ~raised
    /\ stale
    /\ Len(data_table) = 6
    /\ imputed_table = data_table

\* C28: on a non-empty uploaded table a search for or removal of duplicates
\* leaves the outlier store as it was, a detection or handling of outliers
\* leaves the duplicates store as it was, and every other event (an upload,
\* a change of the selected columns, the method or the row count, an
\* imputation) leaves both stores as they were.
C28_StoresOnlyWrittenByOwnActions ==
    [][data_table' # <<>>
       => /\ req'.trig \in {FindTrig, RemoveTrig}
             => outliers_store' = outliers_store
          /\ req'.trig \in {DetectTrig, HandleTrig}
             => duplicates_store' = duplicates_store
          /\ req'.trig \notin {FindTrig, RemoveTrig, DetectTrig, HandleTrig}
             => /\ outliers_store' = outliers_store
                /\ duplicates_store' = duplicates_store]_vars

\* an imputation ran while both stores were filled, and both still are
C28_Witness ==
    /\ req.trig = ImputeTrig
    /\ success_toast
    /\ outliers_store # None
    /\ duplicates_store # None

\* the stores and the button agree
StoresAgree ==
    /\ (trained_model_store = None) <=> (feature_info_store = None)
    /\ predict_button_file_disabled <=> (trained_model_store = None)

\* C29: the trained-model store and the feature-info store are set together
\* or empty together and the file-prediction button is enabled exactly when
\* they are set; a training request that does not end in a trained model
\* leaves both stores empty, whatever they held before.
C29_StoresAndButtonAgree ==
    [][/\ StoresAgree
       /\ StoresAgree'
       /\ (req'.trig = TrainTrig /\ training_status' # "trained")
          => /\ trained_model_store' = None
             /\ feature_info_store' = None
             /\ predict_button_file_disabled']_vars

\* a training has succeeded and the manual fields of its model are on the
\* page; the next training, on a feature with nine rows left, is rejected
\* and has emptied both stores and disabled the file button, while the
\* refresh of the manual fields it requested is not answered yet
C29_Witness ==
    /\ req.trig = TrainTrig
    /\ training_status = "not_enough"
    /\ Len(data_table) = MinRowsToTrain
    /\ trained_model_store = None
    /\ feature_info_store = None
    /\ predict_button_file_disabled
    /\ ~manual_inputs.disabled
    /\ manual_inputs.fields # Recorded.features
    /\ \E q \in pending : q.callback = "create_manual_input_fields"

\* the toast pair of a return value
Toasts(out) == <<out.success_toast, out.warning_toast>>

\* C30: while the two callbacks requested by a click on "Apply Imputation"
\* are unanswered, the pairs of toast values they compute are the same, so
\* that the toasts do not depend on which of them answers last.
C30_ToastsOrderIndependent ==
    \A r1, r2 \in pending :
       (/\ r1.callback = "handle_data_cleaning"
        /\ r1.trig = ImputeTrig
        /\ r2.callback = "handle_imputation_button")
       => Toasts(Cleaning(data_table, r1.trig, 10, r1.selected_columns,
                          r1.method, {}, "None", NULL, "None", {}))
            = Toasts(handle_imputation_button(1, r2.selected_columns))

\* the last event was a prediction that produced predictions
Predicted ==
    /\ req.trig \in {"predict-button-manual", "predict-button-file"}
    /\ prediction_results.kind \in {"result", "completed"}

\* C21: a prediction, from the manual fields or from an uploaded file, is
\* computed from the input rows standardized with the mean and deviation
\* and expanded into the indicator columns recorded by the training.
C21_PredictionOnTransformedRows ==
    Predicted
    => prediction_results.inferred_on
         = Preprocess(prediction_results.rows,
                      Range(trained_model_store[1].features),
                      feature_info_store[1])

\* the last event was a test on selected variables of an uploaded table
Tested ==
    /\ req.trig = "perform-test"
    /\ data_table # <<>>
    /\ Recorded.test_type \in {"chi2", "pearson", "spearman"}
    /\ Recorded.x_axis # ""

\* the rows with a value in both variables
BothPresent ==
    {i \in 1..Len(data_table) :
        /\ ~IsNull(data_table[i][Recorded.x_axis])
        /\ ~IsNull(data_table[i][Recorded.y_axis])}

\* C22: a test without a second variable, a Pearson or Spearman test on a
\* variable that is not numeric, and a test for which fewer than 2 rows
\* have a value in both variables each end in a message and an empty
\* result table.
C22_TestErrorsAreMessages ==
    (/\ Tested
     /\ \/ Recorded.y_axis = ""
        \/ /\ Recorded.test_type \in {"pearson", "spearman"}
           /\ \E c \in {Recorded.x_axis, Recorded.y_axis} :
                 \E i \in 1..Len(data_table) : IsStr(data_table[i][c])
        \/ Cardinality(BothPresent) < 2)
    => /\ test_result \in {"select_y", "must_be_numeric", "not_enough", "error"}
       /\ test_table = [data |-> 0, columns |-> 0]

\* the type of a column without a value has been detected
DetectedOnEmpty ==
    /\ series # None
    /\ \A i \in 1..Len(series[1].values) : IsNull(series[1].values[i])

\* C23: the detection on a column without a non-null value does not raise
\* and answers categorical or text, never datetime, numeric or boolean.
C23_EmptyColumnIsTextOrCategorical ==
    DetectedOnEmpty => detected_type \in {"categorical", "text"}

====
